---- MODULE Spec2Model ----
(***************************************************************************)
(* Model of src/src/main.ts (vscode-nls-dev): the XLF document class, the  *)
(* process-wide aggregation state of prepareXlfFiles                       *)
(* (importModuleOrPackageJson, importIsl) and the helpers they use.        *)
(*                                                                         *)
(* Representation of JavaScript values                                     *)
(*   string      a sequence of tokens; a token is one character, or an     *)
(*               opaque run of characters none of which the code inspects  *)
(*               (neither < > & = ; [ ] . / nor a backslash)               *)
(*   undefined   None;  a defined value v is Some(v)                       *)
(*   Map<T>      (an object used as ordered map) a sequence of entries in  *)
(*               insertion order; assigning to a present key keeps its     *)
(*               position                                                  *)
(***************************************************************************)
EXTENDS Integers, Sequences, FiniteSets, TLC

None == [some |-> FALSE]

Some(v) == [some |-> TRUE, v |-> v]

\* Array.prototype.indexOf / String.prototype.indexOf: first index (0-based) or -1
IndexOf(seq, x) ==
    IF \E i \in 1..Len(seq) : seq[i] = x
    THEN (CHOOSE i \in 1..Len(seq) : seq[i] = x /\ \A j \in 1..(i - 1) : seq[j] # x) - 1
    ELSE -1

\* seq begins with prefix
StartsWithSeq(seq, prefix) ==
    Len(seq) >= Len(prefix) /\ SubSeq(seq, 1, Len(prefix)) = prefix

RECURSIVE Concat(_)
\* Array.prototype.join(''): the concatenation of a sequence of strings
Concat(strs) ==
    IF strs = <<>> THEN <<>> ELSE Head(strs) \o Concat(Tail(strs))

RECURSIVE Join(_, _)
\* Array.prototype.join(sep)
Join(strs, sep) ==
    IF strs = <<>> THEN <<>>
    ELSE IF Len(strs) = 1 THEN Head(strs)
    ELSE Head(strs) \o sep \o Join(Tail(strs), sep)

CRLF == <<"\r\n">>

(***************************************************************************)
(* encodeEntities                                                          *)
(***************************************************************************)
RECURSIVE encodeEntities(_)
encodeEntities(value) ==
    IF value = <<>> THEN <<>>
    ELSE LET ch == Head(value)
             enc == CASE ch = "<" -> <<"&", "l", "t", ";">>
                      [] ch = ">" -> <<"&", "g", "t", ";">>
                      [] ch = "&" -> <<"&", "a", "m", "p", ";">>
                      [] OTHER -> <<ch>>
         IN enc \o encodeEntities(Tail(value))

(***************************************************************************)
(* class Line                                                              *)
(***************************************************************************)
\* new Array(indent + 1).join(' ')
Spaces(indent) == [i \in 1..indent |-> " "]

\* new Line(indent).append(content).toString()
Line(indent, content) ==
    Concat((IF indent > 0 THEN <<Spaces(indent)>> ELSE <<>>) \o <<content>>)

(***************************************************************************)
(* class XLF.  An instance is [project, buffer, files]; files is the       *)
(* ordered map original -> Item[], an Item is [id, message, comment].      *)
(* A key of addFile is a plain string [str |-> TRUE, key] or a LocalizeInfo*)
(* object [str |-> FALSE, ref, key, comment]: ref is the object's identity *)
(* (two objects are === only if they are the same object).                 *)
(***************************************************************************)
NewXLF(project) == [project |-> project, buffer |-> <<>>, files |-> <<>>]

HasFile(files, original) == \E i \in 1..Len(files) : files[i].original = original

\* this.files[original]
ItemsOf(files, original) ==
    LET i == CHOOSE i \in 1..Len(files) : files[i].original = original
    IN files[i].items

\* SetFile as a merging assignment: a path already present keeps its items and
\* the new ones are appended to them
SetFileMerging(files, original, items) ==
    IF HasFile(files, original)
    THEN [i \in 1..Len(files) |->
            IF files[i].original = original
            THEN [original |-> original, items |-> files[i].items \o items] ELSE files[i]]
    ELSE Append(files, [original |-> original, items |-> items])

\* this.files[original] = items
SetFile(files, original, items) ==
    IF HasFile(files, original)
    THEN [i \in 1..Len(files) |->
            IF files[i].original = original
            THEN [original |-> original, items |-> items] ELSE files[i]]
    ELSE Append(files, [original |-> original, items |-> items])

\* the comment of a LocalizeInfo key: joined and escaped, or undefined
KeyComment(key) ==
    IF key.comment.some /\ Len(key.comment.v) > 0
    THEN Some(Join([i \in 1..Len(key.comment.v) |-> encodeEntities(key.comment.v[i])], CRLF))
    ELSE None

RECURSIVE AddFileLoop(_, _, _, _, _)
\* the for-loop of addFile from position i (1-based); the result is the item
\* list built and whether encodeEntities(undefined) threw a TypeError
AddFileLoop(keys, messages, i, existingKeys, items) ==
    IF i > Len(keys) THEN [items |-> items, thrown |-> FALSE]
    ELSE LET key == keys[i]
         IN IF IndexOf(existingKeys, key) # -1
            THEN AddFileLoop(keys, messages, i + 1, existingKeys, items)
            ELSE LET idx == IndexOf(keys, key)
                 IN IF idx >= Len(messages)
                    THEN [items |-> items, thrown |-> TRUE]
                    ELSE LET message == encodeEntities(messages[idx + 1])
                             item == IF key.str
                                     THEN [id |-> key.key, message |-> message, comment |-> None]
                                     ELSE [id |-> key.key, message |-> message,
                                           comment |-> KeyComment(key)]
                         IN AddFileLoop(keys, messages, i + 1,
                                        Append(existingKeys, key), Append(items, item))

\* XLF.addFile: the instance afterwards and whether the call threw
addFile(xlf, original, keys, messages) ==
    LET r == AddFileLoop(keys, messages, 1, <<>>, <<>>)
    IN [xlf |-> [xlf EXCEPT !.files = SetFile(xlf.files, original, r.items)],
        thrown |-> r.thrown]

\* XLF.addStringItem: the lines appended for one item
addStringItem(item) ==
    <<Line(4, <<"<trans-unit id=\"">> \o item.id \o <<"\">">>),
      Line(6, <<"<source xml:lang=\"en\">">> \o item.message \o <<"</source>">>)>>
    \o (IF item.comment.some /\ item.comment.v # <<>>
        THEN <<Line(6, <<"<note>">> \o item.comment.v \o <<"</note>">>)>>
        ELSE <<>>)
    \o <<Line(4, <<"</trans-unit>">>)>>

\* XLF.appendHeader
appendHeader ==
    <<Line(0, <<"<?xml version=\"1.0\" encoding=\"utf-8\"?>">>),
      Line(0, <<"<xliff version=\"1.2\" xmlns=\"urn:oasis:names:tc:xliff:document:1.2\">">>)>>

\* XLF.appendFooter
appendFooter == <<Line(0, <<"</xliff>">>)>>

RECURSIVE ItemLines(_)
ItemLines(items) ==
    IF items = <<>> THEN <<>> ELSE addStringItem(Head(items)) \o ItemLines(Tail(items))

RECURSIVE FileLines(_)
\* the body of the for-in loop of toString, for every file in insertion order
FileLines(files) ==
    IF files = <<>> THEN <<>>
    ELSE <<Line(2, <<"<file original=\"">> \o Head(files).original
                   \o <<"\" source-language=\"en\" datatype=\"plaintext\"><body>">>)>>
         \o ItemLines(Head(files).items)
         \o <<Line(2, <<"</body></file>">>)>>
         \o FileLines(Tail(files))

\* XLF.toString: the lines are appended to this.buffer, which is never reset;
\* the result is the whole buffer joined
toString(xlf) ==
    LET buffer == xlf.buffer \o appendHeader \o FileLines(xlf.files) \o appendFooter
    IN [xlf |-> [xlf EXCEPT !.buffer = buffer], result |-> Join(buffer, CRLF)]

(***************************************************************************)
(* Strings of the aggregation paths                                        *)
(***************************************************************************)
\* '.nls.json', character by character: the code cuts it off by its length
NlsJson == <<".", "n", "l", "s", ".", "j", "s", "o", "n">>

\* String.prototype.substring(start, end): arguments clamped to 0..length and
\* swapped when start > end
Substring(s, start, end) ==
    LET clamp(n) == IF n < 0 THEN 0 ELSE IF n > Len(s) THEN Len(s) ELSE n
        a == clamp(start)
        b == clamp(end)
        lo == IF a < b THEN a ELSE b
        hi == IF a < b THEN b ELSE a
    IN SubSeq(s, lo + 1, hi)

\* String.prototype.substr(start, length) for start >= 0
Substr(s, start, length) ==
    IF length <= 0 \/ start >= Len(s) THEN <<>>
    ELSE SubSeq(s, start + 1, IF start + length > Len(s) THEN Len(s) ELSE start + length)

RECURSIVE Split(_, _)
\* String.prototype.split(sep) for a one-character separator
Split(s, sep) ==
    IF IndexOf(s, sep) = -1 THEN <<s>>
    ELSE LET i == IndexOf(s, sep)
         IN <<SubSeq(s, 1, i)>> \o Split(SubSeq(s, i + 2, Len(s)), sep)

\* replace(/\\/g, '/')
SlashPath(s) == [i \in 1..Len(s) |-> IF s[i] = "\\" THEN "/" ELSE s[i]]

\* path.join(a, b) for two relative paths without '.' or '..' segments
PathJoin(a, b) == a \o <<"/">> \o b

(***************************************************************************)
(* class TextModel and the line loop of importIsl                          *)
(***************************************************************************)
IsNewline(ch) == ch \in {"\r\n", "\r", "\n"}

RECURSIVE SplitLines(_, _)
\* contents.split(/\r\n|\r|\n/): cur is the line being read
SplitLines(contents, cur) ==
    IF contents = <<>> THEN <<cur>>
    ELSE IF Len(contents) >= 2 /\ contents[1] = "\r" /\ contents[2] = "\n"
         THEN <<cur>> \o SplitLines(SubSeq(contents, 3, Len(contents)), <<>>)
    ELSE IF IsNewline(Head(contents))
         THEN <<cur>> \o SplitLines(Tail(contents), <<>>)
    ELSE SplitLines(Tail(contents), Append(cur, Head(contents)))

\* new TextModel(contents).lines
TextModelLines(contents) == SplitLines(contents, <<>>)

\* a header other than the two the extraction knows
OtherHeader == <<"[", "Other", "]">>

MessagesHeader == <<"[", "Messages", "]">>

CustomMessagesHeader == <<"[", "CustomMessages", "]">>

RECURSIVE IslLoop(_, _, _, _, _)
\* model.lines.forEach of importIsl: the keys and messages collected and the
\* number of 'Badly formatted message' errors logged
IslLoop(lines, inMessageSection, keys, messages, errors) ==
    IF lines = <<>> THEN [keys |-> keys, messages |-> messages, errors |-> errors]
    ELSE LET line == Head(lines)
             rest == Tail(lines)
         IN IF Len(line) = 0
            THEN IslLoop(rest, inMessageSection, keys, messages, errors)
            ELSE IF line[1] = ";"
            THEN IslLoop(rest, inMessageSection, keys, messages, errors)
            ELSE IF line[1] = "["
            THEN IslLoop(rest, line = MessagesHeader \/ line = CustomMessagesHeader,
                         keys, messages, errors)
            ELSE IF ~inMessageSection
            THEN IslLoop(rest, inMessageSection, keys, messages, errors)
            ELSE LET sections == Split(line, "=")
                 IN IF Len(sections) # 2
                    THEN IslLoop(rest, inMessageSection, keys, messages, errors + 1)
                    ELSE IF Len(sections[1]) > 0 /\ Len(sections[2]) > 0
                    THEN IslLoop(rest, inMessageSection,
                                 Append(keys, [str |-> TRUE, key |-> sections[1]]),
                                 Append(messages, sections[2]), errors)
                    ELSE IslLoop(rest, inMessageSection, keys, messages, errors)

\* the original path importIsl derives from file.path and file.cwd
IslOriginalPath(file) ==
    SlashPath(Substring(file.path, Len(file.cwd) + 1, Len(Split(file.path, ".")[1])))

(***************************************************************************)
(* decodeEntities                                                          *)
(***************************************************************************)
RECURSIVE ReplaceAll(_, _, _)
\* String.prototype.replace(/pattern/g, replacement) for a literal pattern
ReplaceAll(s, pattern, replacement) ==
    IF Len(s) < Len(pattern) THEN s
    ELSE IF SubSeq(s, 1, Len(pattern)) = pattern
    THEN replacement \o ReplaceAll(SubSeq(s, Len(pattern) + 1, Len(s)), pattern, replacement)
    ELSE <<Head(s)>> \o ReplaceAll(Tail(s), pattern, replacement)

Lt == <<"&", "l", "t", ";">>

Gt == <<"&", "g", "t", ";">>

Amp == <<"&", "a", "m", "p", ";">>

decodeEntities(value) ==
    ReplaceAll(ReplaceAll(ReplaceAll(value, Lt, <<"<">>), Gt, <<">">>), Amp, <<"&">>)

(***************************************************************************)
(* XLF.parse.  xml2js hands the callback (err, result); result is the      *)
(* document as nested objects.  Modelled here:                             *)
(*   input     [err, xliff]: err is set when the text is not XML; xliff is *)
(*             None when the root is not <xliff>, else Some([file]), file  *)
(*             None when there is no <file> child, else Some(file nodes)   *)
(*   file node [original, language, units]: the attributes original and    *)
(*             target-language (None when absent) and the trans-units of   *)
(*             body[0] (None when the body has none)                       *)
(*   unit      [id, target]: the id attribute ('' when empty) and the text *)
(*             of the target child (None when there is no target)          *)
(* The promise is [state, value, calls]: state pending, resolved or        *)
(* rejected, and the number of resolve/reject calls made; only the first   *)
(* call settles it.  An exception thrown in the callback leaves            *)
(* parseString and the executor, which rejects a promise still pending.    *)
(***************************************************************************)
XmlError == [err |-> TRUE, xliff |-> None]

XmlResult(xliff) == [err |-> FALSE, xliff |-> xliff]

FileNode(original, language, units) ==
    [original |-> original, language |-> language, units |-> units]

Unit(id, target) == [id |-> id, target |-> target]

Pending == [state |-> "pending", value |-> <<>>, calls |-> 0]

\* resolve(value) or reject(value)
Settle(promise, state, value) ==
    IF promise.state = "pending"
    THEN [state |-> state, value |-> value, calls |-> promise.calls + 1]
    ELSE [promise EXCEPT !.calls = @ + 1]

\* an exception reaches the executor of the promise
Throw(promise, error) ==
    IF promise.state = "pending"
    THEN [promise EXCEPT !.state = "rejected", !.value = error]
    ELSE promise

\* String.prototype.toLowerCase, token by token
ToLowerCase(s) ==
    [i \in 1..Len(s) |-> CASE s[i] = "DE" -> "de" [] s[i] = "Fr" -> "fr" [] OTHER -> s[i]]

\* messages[key] = value
SetMessage(messages, key, value) ==
    IF \E i \in 1..Len(messages) : messages[i].key = key
    THEN [i \in 1..Len(messages) |->
            IF messages[i].key = key THEN [key |-> key, value |-> value] ELSE messages[i]]
    ELSE Append(messages, [key |-> key, value |-> value])

RECURSIVE ParseUnitsRequiringTarget(_, _, _, _)
\* ParseUnits where a trans-unit without target is an error like an empty one
ParseUnitsRequiringTarget(transUnits, i, messages, promise) ==
    IF i > Len(transUnits) THEN [messages |-> messages, promise |-> promise]
    ELSE LET unit == transUnits[i]
             key == unit.id
         IN IF ~unit.target.some
            THEN ParseUnitsRequiringTarget(transUnits, i + 1, messages,
                    Settle(promise, "rejected", "XLIFF file does not contain full localization data."))
            ELSE LET val == unit.target.v
                 IN IF key # <<>> /\ val # <<>>
                    THEN ParseUnitsRequiringTarget(transUnits, i + 1,
                            SetMessage(messages, key, decodeEntities(val)), promise)
                    ELSE ParseUnitsRequiringTarget(transUnits, i + 1, messages,
                            Settle(promise, "rejected",
                                   "XLIFF file does not contain full localization data."))

RECURSIVE ParseUnits(_, _, _, _)
\* transUnits.forEach(unit => ...) from position i
ParseUnits(transUnits, i, messages, promise) ==
    IF i > Len(transUnits) THEN [messages |-> messages, promise |-> promise]
    ELSE LET unit == transUnits[i]
             key == unit.id
         IN IF ~unit.target.some
            THEN ParseUnits(transUnits, i + 1, messages, promise)
            ELSE LET val == unit.target.v
                 IN IF key # <<>> /\ val # <<>>
                    THEN ParseUnits(transUnits, i + 1,
                                    SetMessage(messages, key, decodeEntities(val)), promise)
                    ELSE ParseUnits(transUnits, i + 1, messages,
                            Settle(promise, "rejected",
                                   "XLIFF file does not contain full localization data."))

RECURSIVE ParseFiles(_, _, _, _)
\* fileNodes.forEach((file) => ...) from position i, followed by resolve(files)
ParseFiles(fileNodes, i, files, promise) ==
    IF i > Len(fileNodes) THEN Settle(promise, "resolved", files)
    ELSE LET file == fileNodes[i]
             originalFilePath == file.original
             p1 == IF ~originalFilePath.some \/ originalFilePath.v = <<>>
                   THEN Settle(promise, "rejected",
                               "XLIFF file node does not contain original attribute.")
                   ELSE promise
         IN IF ~file.language.some
            THEN Throw(p1, "TypeError")
            ELSE LET language == ToLowerCase(file.language.v)
                     p2 == IF language = <<>>
                           THEN Settle(p1, "rejected",
                                       "XLIFF file node does not contain target-language attribute.")
                           ELSE p1
                 IN IF ~file.units.some
                    THEN Throw(p2, "TypeError")
                    ELSE LET r == ParseUnits(file.units.v, 1, <<>>, p2)
                         IN ParseFiles(fileNodes, i + 1,
                                       Append(files, [messages |-> r.messages,
                                                      originalFilePath |-> originalFilePath,
                                                      language |-> language]),
                                       r.promise)

\* XLF.parse: the promise returned, after the callback of parseString has run
parse(input) ==
    IF input.err
    THEN Throw(Settle(Pending, "rejected", "Failed to parse XLIFF string."), "TypeError")
    ELSE IF ~input.xliff.some
    THEN Throw(Pending, "TypeError")
    ELSE IF ~input.xliff.v.file.some
    THEN Throw(Settle(Pending, "rejected",
                      "XLIFF file does not contain \"xliff\" or \"file\" node(s) required for parsing."),
               "TypeError")
    ELSE ParseFiles(input.xliff.v.file.v, 1, <<>>, Pending)

RECURSIVE XmlText(_)
\* the character data the XML parser delivers for the raw text of an element:
\* the references &lt; &gt; &amp; are resolved in one pass
XmlText(raw) ==
    IF raw = <<>> THEN <<>>
    ELSE IF StartsWithSeq(raw, Lt) THEN <<"<">> \o XmlText(SubSeq(raw, Len(Lt) + 1, Len(raw)))
    ELSE IF StartsWithSeq(raw, Gt) THEN <<">">> \o XmlText(SubSeq(raw, Len(Gt) + 1, Len(raw)))
    ELSE IF StartsWithSeq(raw, Amp)
    THEN <<"&">> \o XmlText(SubSeq(raw, Len(Amp) + 1, Len(raw)))
    ELSE <<Head(raw)>> \o XmlText(Tail(raw))

\* what parseString hands the callback for the serialization of xlf in which
\* a translator has given every trans-unit a target with the text of its
\* source, and every file the target-language language
TranslatedResult(xlf, language) ==
    XmlResult(Some([file |-> Some(
        [i \in 1..Len(xlf.files) |->
            FileNode(Some(xlf.files[i].original), Some(language),
                IF xlf.files[i].items = <<>> THEN None
                ELSE Some([n \in 1..Len(xlf.files[i].items) |->
                        Unit(xlf.files[i].items[n].id,
                             Some(XmlText(xlf.files[i].items[n].message)))]))])]))

(***************************************************************************)
(* The language tables and createIslFile                                   *)
(***************************************************************************)
(* A language is the string of its code.  A table is a function from the   *)
(* codes it has an entry for; table[code] is None for any other code, as   *)
(* the property read of JavaScript is undefined.                           *)
(***************************************************************************)
Entry(table, code) == IF code \in DOMAIN table THEN Some(table[code]) ELSE None

\* a value inside a template literal: undefined reads 'undefined'
Interpolate(value) == IF value.some THEN value.v ELSE <<"undefined">>

iso639_3_to_2 ==
    [chs |-> <<"zh-cn">>, cht |-> <<"zh-tw">>, csy |-> <<"cs-cz">>, deu |-> <<"de">>,
     enu |-> <<"en">>, esn |-> <<"es">>, fra |-> <<"fr">>, hun |-> <<"hu">>,
     ita |-> <<"it">>, jpn |-> <<"ja">>, kor |-> <<"ko">>, nld |-> <<"nl">>,
     plk |-> <<"pl">>, ptb |-> <<"pt-br">>, ptg |-> <<"pt">>, rus |-> <<"ru">>,
     sve |-> <<"sv-se">>, trk |-> <<"tr">>]

vscodeLanguages == <<"chs", "cht", "jpn", "kor", "deu", "fra", "esn", "rus", "ita">>

\* iso639_2_to_3[tag]: the code whose tag it is, None for an unknown tag
iso639_2_to_3(tag) ==
    IF \E code \in DOMAIN iso639_3_to_2 : iso639_3_to_2[code] = tag
    THEN Some(CHOOSE code \in DOMAIN iso639_3_to_2 : iso639_3_to_2[code] = tag)
    ELSE None

languageNames ==
    [chs |-> <<"Simplified Chinese">>, cht |-> <<"Traditional Chinese">>,
     kor |-> <<"Korean">>]

languageIds == [chs |-> <<"$0804">>, cht |-> <<"$0404">>, kor |-> <<"$0412">>]

\* the code pages, 'CP' character by character: the code cuts it off
encodings ==
    [chs |-> <<"C", "P", "936">>, cht |-> <<"C", "P", "950">>, jpn |-> <<"C", "P", "932">>,
     kor |-> <<"C", "P", "949">>, deu |-> <<"C", "P", "1252">>, fra |-> <<"C", "P", "1252">>,
     esn |-> <<"C", "P", "1252">>, rus |-> <<"C", "P", "1251">>, ita |-> <<"C", "P", "1252">>]

\* the language argument: a code, or None for undefined
TableEntry(table, language) == IF language.some THEN Entry(table, language.v) ELSE None

\* path.basename and path.dirname of a relative path without '.' segments
Basename(p) == Split(p, "/")[Len(Split(p, "/"))]

Dirname(p) ==
    IF IndexOf(p, "/") = -1 THEN <<".">>
    ELSE SubSeq(p, 1, Len(p) - Len(Basename(p)) - 1)

\* messages[key] of a message map: None when the map has no such property
MessageOf(messages, key) ==
    IF \E i \in 1..Len(messages) : messages[i].key = key
    THEN Some(messages[CHOOSE i \in 1..Len(messages) : messages[i].key = key].value)
    ELSE None

\* a JavaScript value used as a condition: undefined and '' are false
Truthy(value) == value.some /\ value.v # <<>>

EnglishBanner ==
    <<";", " *** Inno Setup version 5.5.3+ ", "English", " messages ***">>

Banner(name) == <<";", " *** Inno Setup version 5.5.3+ ">> \o name \o <<" messages ***">>

\* the body of originalContent.lines.forEach for one line: whether it threw
\* and the lines it pushed to content
IslLine(line, messages, language) ==
    IF Len(line) = 0 THEN [threw |-> FALSE, pushed |-> <<>>]
    ELSE IF line[1] = "[" \/ line[1] = ";"
    THEN IF line = EnglishBanner
         THEN [threw |-> FALSE,
               pushed |-> <<Banner(Interpolate(TableEntry(languageNames, language)))>>]
         ELSE [threw |-> FALSE, pushed |-> <<line>>]
    ELSE LET key == Split(line, "=")[1]
         IN IF key = <<>> THEN [threw |-> FALSE, pushed |-> <<line>>]
            ELSE IF key = <<"LanguageName">>
            THEN [threw |-> FALSE,
                  pushed |-> <<key \o <<"=">>
                               \o Interpolate(TableEntry(languageNames, language))>>]
            ELSE IF key = <<"LanguageID">>
            THEN [threw |-> FALSE,
                  pushed |-> <<key \o <<"=">>
                               \o Interpolate(TableEntry(languageIds, language))>>]
            ELSE IF key = <<"LanguageCodePage">>
            THEN IF TableEntry(encodings, language).some
                 THEN [threw |-> FALSE,
                       pushed |-> <<key \o <<"=">>
                                    \o Substr(TableEntry(encodings, language).v, 2,
                                              Len(TableEntry(encodings, language).v))>>]
                 ELSE [threw |-> TRUE, pushed |-> <<>>]
            ELSE IF Truthy(MessageOf(messages, key))
            THEN [threw |-> FALSE,
                  pushed |-> <<key \o <<"=">> \o MessageOf(messages, key).v>>]
            ELSE [threw |-> FALSE, pushed |-> <<line>>]

RECURSIVE IslContent(_, _, _, _)
\* originalContent.lines.forEach: content after the lines, or the TypeError
\* that ended the loop
IslContent(lines, messages, language, content) ==
    IF lines = <<>> THEN [threw |-> FALSE, content |-> content]
    ELSE LET r == IslLine(Head(lines), messages, language)
         IN IF r.threw THEN [threw |-> TRUE, content |-> content]
            ELSE IslContent(Tail(lines), messages, language, content \o r.pushed)

\* iconv.encode(buffer, encoding): the text in the code page, an exception
\* for an encoding iconv does not know (undefined)
IconvEncode(text, encoding) ==
    IF encoding.some THEN [threw |-> FALSE, encoding |-> encoding.v, text |-> text]
    ELSE [threw |-> TRUE, encoding |-> <<>>, text |-> <<>>]

\* createIslFile, given the contents of the template it reads: the File
\* returned and the content lines, or the exception thrown
createIslFile(base, originalFilePath, template, messages, language) ==
    LET r == IslContent(TextModelLines(template), messages, language, <<>>)
        tag == Interpolate(TableEntry(iso639_3_to_2, language))
        filePath == PathJoin(PathJoin(base, Dirname(originalFilePath)),
                             Basename(originalFilePath))
                    \o <<".">> \o tag \o <<".", "isl">>
        encoded == IconvEncode(Join(r.content, CRLF), TableEntry(encodings, language))
    IN IF r.threw \/ encoded.threw
       THEN [threw |-> TRUE, path |-> <<>>, content |-> <<>>, contents |-> encoded]
       ELSE [threw |-> FALSE, path |-> filePath, content |-> r.content,
             contents |-> encoded]
(***************************************************************************)
(* createI18nFile and the then-callback of prepareJsonFiles                *)
(***************************************************************************)
I18nHeader ==
    <<"/*---", "\n", " *  Copyright", "\n", " *  Licensed", "\n", " *---*/", "\n",
      "// Do not edit this file. It is machine generated.">>

RECURSIVE JsonStringify(_)
\* JSON.stringify(messages, null, '\t'): one line per property, in order
JsonStringify(messages) ==
    IF messages = <<>> THEN <<>>
    ELSE <<"\n", "\t", "\"">> \o Head(messages).key \o <<"\"", ": ", "\"">>
         \o Head(messages).value \o <<"\"">>
         \o (IF Len(messages) > 1 THEN <<",">> ELSE <<>>)
         \o JsonStringify(Tail(messages))

\* createI18nFile: path.join throws for a base that is no string
createI18nFile(base, originalFilePath, messages) ==
    IF ~base.some THEN [threw |-> TRUE, path |-> <<>>, contents |-> <<>>]
    ELSE [threw |-> FALSE,
          path |-> PathJoin(<<base.v>>, originalFilePath \o <<".i18n.json">>),
          contents |-> I18nHeader \o <<"\n", "{">> \o JsonStringify(messages)
                       \o (IF messages = <<>> THEN <<"}">> ELSE <<"\n", "}">>)]

\* defaultLanguages with an entry for every language tag
defaultLanguagesAll == {iso639_3_to_2[code] : code \in DOMAIN iso639_3_to_2}

\* const defaultLanguages
defaultLanguages == {<<"zh-cn">>, <<"zh-tw">>, <<"ko">>}

\* the name of the template createIslFile reads
IslTemplateName(originalFilePath) ==
    IF Basename(originalFilePath) = <<"Default">>
    THEN originalFilePath \o <<".", "isl">>
    ELSE originalFilePath \o <<".", "en", ".", "isl">>

\* the ISL templates of the build tree, by name
IslTemplates ==
    <<[name |-> <<"build", "/", "win32", "/", "i18n", "/", "Default", ".", "isl">>,
       contents |-> <<"[", "LangOptions", "]", "\r\n", "LanguageName", "=", "English",
                      "\r\n", "[", "Messages", "]", "\n", "k", "=", "v">>],
      [name |-> <<"build", "/", "win32", "/", "i18n", "/", "messages", ".", "en", ".",
                  "isl">>,
       contents |-> <<"[", "CustomMessages", "]", "\n", "k", "=", "v", "\n", "j", "=", "w">>]>>

\* fs.readFileSync(name, 'utf8'): None when it throws, there being no such file
readFileSync(name) ==
    IF \E i \in 1..Len(IslTemplates) : IslTemplates[i].name = name
    THEN Some(IslTemplates[CHOOSE i \in 1..Len(IslTemplates) :
                              IslTemplates[i].name = name].contents)
    ELSE None

\* the body of resolvedFiles.forEach for one file: the file emitted, if any,
\* or the exception thrown
TranslateFile(file) ==
    LET originalFilePath == file.originalFilePath.v
        language == iso639_2_to_3(file.language)
    IN IF StartsWithSeq(originalFilePath, <<"build", "/">>)
       THEN IF Basename(originalFilePath) = <<"Default">>
               /\ file.language \notin defaultLanguages
            THEN [threw |-> FALSE, emits |-> <<>>]
            ELSE LET template == readFileSync(IslTemplateName(originalFilePath))
                     translatedFile ==
                         createIslFile(<<"..">>, originalFilePath, template.v,
                                       file.messages, language)
                 IN IF ~template.some \/ translatedFile.threw
                    THEN [threw |-> TRUE, emits |-> <<>>]
                    ELSE [threw |-> FALSE,
                          emits |-> <<[path |-> translatedFile.path,
                                       contents |-> translatedFile.contents]>>]
       ELSE LET translatedFile ==
                    createI18nFile(language, originalFilePath, file.messages)
            IN IF translatedFile.threw
               THEN [threw |-> TRUE, emits |-> <<>>]
               ELSE [threw |-> FALSE,
                     emits |-> <<[path |-> translatedFile.path,
                                  contents |-> translatedFile.contents]>>]

RECURSIVE TranslateFiles(_, _, _)
\* resolvedFiles.forEach from position i: the files emitted, and the position
\* of the file whose exception ended the loop (0 when none did)
TranslateFiles(resolvedFiles, i, emits) ==
    IF i > Len(resolvedFiles) THEN [emits |-> emits, at |-> 0]
    ELSE LET r == TranslateFile(resolvedFiles[i])
         IN IF r.threw THEN [emits |-> emits, at |-> i]
            ELSE TranslateFiles(resolvedFiles, i + 1, emits \o r.emits)
\* no function has been called
NoCall == [op |-> "none", done |-> FALSE, arg |-> <<>>, result |-> <<>>]

(***************************************************************************)
(* State                                                                   *)
(***************************************************************************)
VARIABLES
    extensions,    \* var extensions: extension name -> None | Some([xlf, processed])
    islXlf,        \* var islXlf: None | Some(XLF)
    islProcessed,  \* var islProcessed
    fsCount,       \* the file system as glob.sync sees it: pattern -> number of matches
    emitted,       \* the files passed to stream.emit('data', ...), in order
    logged,        \* number of log('Error...') calls
    thrown,        \* a TypeError escaped a stream handler: the run is aborted
    hist,          \* per aggregation group, what each arrival did (history)
    nFiles,        \* number of files handled (history)
    arrival,       \* the last bundle, unrecognized .json or XLIFF file handled
                   \* (history)
    doc,           \* an XLF instance driven through its public methods
    outs,          \* the results of the toString() calls on doc, in order
    call,          \* the last method call on doc (history)
    pure,          \* the last call of a function without side effects: its name,
                   \* argument and result
    jobs,          \* prepareJsonFiles: the settled promises of XLF.parse whose
                   \* then-callbacks have not run yet, in order
    tryGetPromises,        \* let tryGetPromises of pushXlfFiles
    updateCreatePromises,  \* let updateCreatePromises of pushXlfFiles
    flush,         \* pushXlfFiles: how far the end function has got
    called,        \* let called of pullXlfFiles
    translationsRetrieved, \* let translationsRetrieved of pullXlfFiles
    requests,      \* pullXlfFiles: the state of the request of each
                   \* (language, resource) pair
    reads,         \* pullXlfFiles: number of calls of the read function (history)
    ended          \* number of 'end' events the stream has emitted

vars == <<extensions, islXlf, islProcessed, fsCount, emitted, logged, thrown,
          hist, nFiles, arrival, doc, outs, call, pure, jobs, tryGetPromises,
          updateCreatePromises, flush, called, translationsRetrieved, requests, reads,
          ended>>

aggVars == <<extensions, islXlf, islProcessed, fsCount, emitted, logged, thrown,
             hist, nFiles, arrival>>

xlfVars == <<doc, outs, call>>

fnVars == <<pure>>

\* the streams of the reverse direction and of the Transifex exchange
ioVars == <<jobs, tryGetPromises, updateCreatePromises, flush, called,
            translationsRetrieved, requests, reads, ended>>

\* the end function of pushXlfFiles has not been called
NotFlushed == [called |-> FALSE, tryGetAll |-> "none", awaited |-> {}, updateAll |-> "none"]

\* no file has entered prepareJsonFiles or pushXlfFiles, and pullXlfFiles has
\* not been called
InitIo ==
    /\ jobs = <<>>
    /\ tryGetPromises = <<>>
    /\ updateCreatePromises = <<>>
    /\ flush = NotFlushed
    /\ called = FALSE
    /\ translationsRetrieved = 0
    /\ requests = <<>>
    /\ reads = 0
    /\ ended = 0

(***************************************************************************)
(* Bounds and inputs                                                       *)
(***************************************************************************)
\* files handled in one run of the process
MaxArrivals == 2

\* largest number of files a glob pattern matches
MaxCount == 2

ExtNames == {<<"ext1">>, <<"ext2">>}

IslGroup == <<"setup">>

GroupIds == ExtNames \cup {IslGroup}

\* the projectName argument of prepareXlfFiles
ProjectNames == {<<"vscode-extensions">>}

S(k) == [str |-> TRUE, key |-> k]

Obj(ref, k, comment) == [str |-> FALSE, ref |-> ref, key |-> k, comment |-> comment]

Module(keys, messages) == [kind |-> "module", keys |-> keys, messages |-> messages]

Package(entries) == [kind |-> "package", entries |-> entries]

\* the .nls.json files that arrive: file.relative, the parsed contents, and the
\* extensionName argument of the stream that handles the file
JsonFiles ==
    { [relative |-> <<"ext1", "/", "a">> \o NlsJson, extensionName |-> None,
       json |-> Module(<<S(<<"k">>), S(<<"j">>)>>, <<<<"a">>, <<"<", "b">>>>)],
      [relative |-> <<"ext1", "\\", "b">> \o NlsJson, extensionName |-> None,
       json |-> Module(<<S(<<"k">>)>>, <<<<"a">>, <<"b">>>>)],
      [relative |-> <<"ext1", "/", "c">> \o NlsJson, extensionName |-> None,
       json |-> Module(<<S(<<"k">>), S(<<"j">>)>>, <<<<"a">>>>)],
      [relative |-> <<"out", "/", "a">> \o NlsJson, extensionName |-> Some(<<"ext2">>),
       json |-> Package(<<[key |-> <<"k">>, value |-> [str |-> TRUE, v |-> <<"&">>]]>>)] }

IslCwd == <<"/", "w">>

\* the .isl files that arrive: file.path, file.cwd and the contents
IslFiles ==
    { [path |-> IslCwd \o <<"/", "build", "/", "Default", ".", "isl">>, cwd |-> IslCwd,
       contents |-> <<"[", "Messages", "]", "\r", "\n", "k", "=", "v">>],
      [path |-> IslCwd \o <<"/", "build", "\\", "messages", ".", "en", ".", "isl">>,
       cwd |-> IslCwd,
       contents |-> <<";", "c", "\n", "k", "=", "v", "\n", "[", "CustomMessages", "]", "\r",
                      "j", "=", "w", "\n", "k", "=", "u", "\n", "bad", "\n",
                      "[", "Other", "]", "\n", "i", "=", "x">>] }

GlobExternal == <<"**/*.nls.json">>

GlobExtension(extensionName) == <<"./extensions/">> \o extensionName \o <<"/**/*.nls.json">>

\* the patterns the arriving files make the code evaluate
Patterns == {GlobExternal, GlobExtension(<<"ext1">>)}

\* glob.sync(pattern).length
GlobCount(pattern) == fsCount[pattern]

(***************************************************************************)
(* prepareXlfFiles: the module/package path and the ISL path               *)
(***************************************************************************)
\* ModuleJsonFormat.is(json)
ModuleJsonFormatIs(json) == json.kind = "module"

\* Object.keys(json) of a package JSON, as addFile keys
PackageKeys(json) == [i \in 1..Len(json.entries) |-> S(json.entries[i].key)]

\* Object.keys(json).map((key) => json[key].toString()) of a package JSON
PackageMessages(json) ==
    [i \in 1..Len(json.entries) |->
        IF json.entries[i].value.str THEN json.entries[i].value.v
        ELSE <<"[object Object]">>]

\* what one arrival did to its group (history record): the original path it
\* contributed, the count its completion test compared against, whether it
\* emitted, how many errors it logged, whether it threw, and the ids and the
\* number of messages it passed to addFile
Arrival(original, count, emit, logs, threw, keys, messages) ==
    [original |-> original, count |-> count, emit |-> emit, logs |-> logs,
     threw |-> threw, ids |-> [i \in 1..Len(keys) |-> keys[i].key],
     nmsgs |-> Len(messages)]

\* CountReached as a threshold test: every arrival from the count on emits
CountReachedOrPassed(processed, count) == processed >= count

\* ++processed === count, the completion test of both aggregation paths
CountReached(processed, count) == processed = count

\* new File({ path, contents })
NewFile(path, contents) == [path |-> path, contents |-> contents]

\* SetExtension with one extension object kept for all the names
SetExtensionShared(map, extensionName, extension) ==
    [name \in DOMAIN map |-> extension]

\* extensions[extensionName] = extension, with the changes made to the object
SetExtension(map, extensionName, extension) ==
    [map EXCEPT ![extensionName] = extension]

importModuleOrPackageJson(file, projectName, extensionNameArg) ==
    LET json == file.json
        isModule == ModuleJsonFormatIs(json)
        warned == isModule /\ Len(json.keys) # Len(json.messages)
        formattedSourcePath == SlashPath(file.relative)
        external == extensionNameArg.some /\ extensionNameArg.v # <<>>
        extensionName == IF external THEN extensionNameArg.v
                         ELSE Split(formattedSourcePath, "/")[1]
        localizationFilesCount == IF external THEN GlobCount(GlobExternal)
                                  ELSE GlobCount(GlobExtension(extensionName))
        stripped == Substr(formattedSourcePath, 0, Len(formattedSourcePath) - Len(NlsJson))
        originalFilePath == IF external THEN stripped ELSE <<"extensions", "/">> \o stripped
        extension == IF extensions[extensionName].some THEN extensions[extensionName].v
                     ELSE [xlf |-> NewXLF(projectName), processed |-> 0]
        keys == IF isModule THEN json.keys ELSE PackageKeys(json)
        messages == IF isModule THEN json.messages ELSE PackageMessages(json)
        added == addFile(extension.xlf, originalFilePath, keys, messages)
        processed == extension.processed + 1
        emit == ~added.thrown /\ CountReached(processed, localizationFilesCount)
        str == toString(added.xlf)
    IN /\ ~thrown
       /\ nFiles < MaxArrivals
       /\ nFiles' = nFiles + 1
       /\ logged' = logged + (IF warned THEN 1 ELSE 0)
       /\ thrown' = added.thrown
       /\ extensions' = SetExtension(extensions, extensionName,
              Some(IF added.thrown THEN [xlf |-> added.xlf, processed |-> extension.processed]
                   ELSE IF emit THEN [xlf |-> str.xlf, processed |-> processed]
                   ELSE [xlf |-> added.xlf, processed |-> processed]))
       /\ emitted' = IF emit
                     THEN Append(emitted, NewFile(PathJoin(projectName, extensionName \o <<".xlf">>),
                                                  str.result))
                     ELSE emitted
       /\ hist' = [hist EXCEPT ![extensionName] =
              Append(@, Arrival(originalFilePath, localizationFilesCount, emit,
                                IF warned THEN 1 ELSE 0, added.thrown, keys, messages))]
       /\ UNCHANGED <<islXlf, islProcessed, fsCount, arrival>>
       /\ UNCHANGED xlfVars
       /\ UNCHANGED fnVars
       /\ UNCHANGED ioVars

\* const islFiles = ['Default.isl', 'messages.en.isl']
islFiles == <<<<"Default", ".", "isl">>, <<"messages", ".", "en", ".", "isl">>>>

importIsl(file) ==
    LET projectName == <<"vscode-workbench">>
        xlf == IF islXlf.some THEN islXlf.v ELSE NewXLF(projectName)
        parsed == IslLoop(TextModelLines(file.contents), FALSE, <<>>, <<>>, 0)
        originalPath == IslOriginalPath(file)
        added == addFile(xlf, originalPath, parsed.keys, parsed.messages)
        processed == islProcessed + 1
        emit == ~added.thrown /\ CountReached(processed, Len(islFiles))
        str == toString(added.xlf)
    IN /\ ~thrown
       /\ nFiles < MaxArrivals
       /\ nFiles' = nFiles + 1
       /\ logged' = logged + parsed.errors
       /\ thrown' = added.thrown
       /\ islXlf' = Some(IF emit THEN str.xlf ELSE added.xlf)
       /\ islProcessed' = IF added.thrown THEN islProcessed ELSE processed
       /\ emitted' = IF emit
                     THEN Append(emitted, NewFile(PathJoin(projectName, <<"setup.xlf">>),
                                                  str.result))
                     ELSE emitted
       /\ hist' = [hist EXCEPT ![IslGroup] =
              Append(@, Arrival(originalPath, Len(islFiles), emit, parsed.errors,
                                added.thrown, parsed.keys, parsed.messages))]
       /\ UNCHANGED <<extensions, fsCount, arrival>>
       /\ UNCHANGED xlfVars
       /\ UNCHANGED fnVars
       /\ UNCHANGED ioVars

\* a .nls.json file is created or deleted on disk between two arrivals
FsChange(pattern, n) ==
    /\ ~thrown
    /\ n # fsCount[pattern]
    /\ fsCount' = [fsCount EXCEPT ![pattern] = n]
    /\ UNCHANGED <<extensions, islXlf, islProcessed, emitted, logged, thrown, hist, nFiles,
                   arrival>>
    /\ UNCHANGED xlfVars
    /\ UNCHANGED fnVars
    /\ UNCHANGED ioVars

(***************************************************************************)
(* getResource.  A source path is a sequence of tokens; '/' is a token of  *)
(* its own and a segment may consist of several tokens ("base","ment"),    *)
(* so that a prefix of the characters is a prefix of the tokens            *)
(***************************************************************************)
\* String.prototype.startsWith
StartsWith(s, prefix) ==
    Len(s) >= Len(prefix) /\ SubSeq(s, 1, Len(prefix)) = prefix

\* String.prototype.split(sep, limit)
SplitLimit(s, sep, limit) ==
    LET all == Split(s, sep)
    IN SubSeq(all, 1, IF Len(all) < limit THEN Len(all) ELSE limit)

editorProject == <<"vscode-editor">>

workbenchProject == <<"vscode-workbench">>

VsPlatform == <<"vs", "/", "platform">>

VsEditorContrib == <<"vs", "/", "editor", "/", "contrib">>

VsEditor == <<"vs", "/", "editor">>

VsBase == <<"vs", "/", "base">>

VsCode == <<"vs", "/", "code">>

VsWorkbenchParts == <<"vs", "/", "workbench", "/", "parts">>

VsWorkbenchServices == <<"vs", "/", "workbench", "/", "services">>

VsWorkbench == <<"vs", "/", "workbench">>

\* return { name, project }
Resource(name, project) == [threw |-> FALSE, name |-> name, project |-> project]

\* ResourceError as a fallback: a path no rule matches is put into a default
\* resource and nothing is thrown
ResourceErrorFallback(sourceFile) ==
    [threw |-> FALSE, name |-> <<"unknown">>, project |-> workbenchProject]

\* throw new Error(`Could not identify the XLF bundle for ${sourceFile}`)
ResourceError(sourceFile) ==
    [threw |-> TRUE, message |-> <<"Could not identify the XLF bundle for ">> \o sourceFile]

\* getResource with the vs/editor test placed before the vs/editor/contrib test
getResourceEditorFirst(sourceFile) ==
    IF StartsWith(sourceFile, VsPlatform) THEN Resource(VsPlatform, editorProject)
    ELSE IF StartsWith(sourceFile, VsEditor) THEN Resource(VsEditor, editorProject)
    ELSE IF StartsWith(sourceFile, VsEditorContrib)
    THEN Resource(VsEditorContrib, editorProject)
    ELSE IF StartsWith(sourceFile, VsBase) THEN Resource(VsBase, editorProject)
    ELSE IF StartsWith(sourceFile, VsCode) THEN Resource(VsCode, workbenchProject)
    ELSE IF StartsWith(sourceFile, VsWorkbenchParts)
    THEN Resource(Join(SplitLimit(sourceFile, "/", 4), <<"/">>), workbenchProject)
    ELSE IF StartsWith(sourceFile, VsWorkbenchServices)
    THEN Resource(Join(SplitLimit(sourceFile, "/", 4), <<"/">>), workbenchProject)
    ELSE IF StartsWith(sourceFile, VsWorkbench) THEN Resource(VsWorkbench, workbenchProject)
    ELSE ResourceError(sourceFile)

getResource(sourceFile) ==
    IF StartsWith(sourceFile, VsPlatform) THEN Resource(VsPlatform, editorProject)
    ELSE IF StartsWith(sourceFile, VsEditorContrib)
    THEN Resource(VsEditorContrib, editorProject)
    ELSE IF StartsWith(sourceFile, VsEditor) THEN Resource(VsEditor, editorProject)
    ELSE IF StartsWith(sourceFile, VsBase) THEN Resource(VsBase, editorProject)
    ELSE IF StartsWith(sourceFile, VsCode) THEN Resource(VsCode, workbenchProject)
    ELSE IF StartsWith(sourceFile, VsWorkbenchParts)
    THEN Resource(Join(SplitLimit(sourceFile, "/", 4), <<"/">>), workbenchProject)
    ELSE IF StartsWith(sourceFile, VsWorkbenchServices)
    THEN Resource(Join(SplitLimit(sourceFile, "/", 4), <<"/">>), workbenchProject)
    ELSE IF StartsWith(sourceFile, VsWorkbench) THEN Resource(VsWorkbench, workbenchProject)
    ELSE ResourceError(sourceFile)

(***************************************************************************)
(* prepareXlfFiles: the combined-bundle path and the unrecognized JSON     *)
(***************************************************************************)
\* a BundledFormat JSON: sources lists, in the order of the properties of
\* json.keys, each source with json.keys[source] and json.messages[source]
Bundle(sources) == [kind |-> "bundle", sources |-> sources]

\* BundledFormat.is(json)
BundledFormatIs(json) == json.kind = "bundle"

\* PackageJsonFormat.is(json)
PackageJsonFormatIs(json) == json.kind = "package"

\* bundleXlfs[resource]
HasResource(bundleXlfs, resource) ==
    \E i \in 1..Len(bundleXlfs) : bundleXlfs[i].resource = resource

XlfOf(bundleXlfs, resource) ==
    LET i == CHOOSE i \in 1..Len(bundleXlfs) : bundleXlfs[i].resource = resource
    IN bundleXlfs[i].xlf

\* bundleXlfs[resource] = xlf
SetXlf(bundleXlfs, resource, xlf) ==
    IF HasResource(bundleXlfs, resource)
    THEN [i \in 1..Len(bundleXlfs) |->
            IF bundleXlfs[i].resource = resource
            THEN [resource |-> resource, xlf |-> xlf] ELSE bundleXlfs[i]]
    ELSE Append(bundleXlfs, [resource |-> resource, xlf |-> xlf])

RECURSIVE BundleLoop(_, _, _, _)
\* for (let source in json.keys) of importBundleJson from position i: the map
\* bundleXlfs built, the number of mismatches logged, and whether getResource
\* or addFile threw
BundleLoop(sources, i, bundleXlfs, logs) ==
    IF i > Len(sources)
    THEN [bundleXlfs |-> bundleXlfs, logs |-> logs, threw |-> FALSE, message |-> <<>>]
    ELSE LET source == sources[i].source
             projectResource == getResource(source)
         IN IF projectResource.threw
            THEN [bundleXlfs |-> bundleXlfs, logs |-> logs, threw |-> TRUE,
                  message |-> projectResource.message]
            ELSE LET resource == projectResource.name
                     project == projectResource.project
                     keys == sources[i].keys
                     messages == sources[i].messages
                     logs2 == logs + (IF Len(keys) # Len(messages) THEN 1 ELSE 0)
                     xlf == IF HasResource(bundleXlfs, resource)
                            THEN XlfOf(bundleXlfs, resource) ELSE NewXLF(project)
                     added == addFile(xlf, source, keys, messages)
                 IN IF added.thrown
                    THEN [bundleXlfs |-> SetXlf(bundleXlfs, resource, added.xlf),
                          logs |-> logs2, threw |-> TRUE, message |-> <<"TypeError">>]
                    ELSE BundleLoop(sources, i + 1,
                                    SetXlf(bundleXlfs, resource, added.xlf), logs2)

\* resource.replace(/\//g, '_')
Underscored(resource) ==
    [i \in 1..Len(resource) |-> IF resource[i] = "/" THEN "_" ELSE resource[i]]

\* `${project}/${resource.replace(/\//g, '_')}.xlf`
BundlePath(project, resource) == project \o <<"/">> \o Underscored(resource) \o <<".xlf">>

\* for (let resource in bundleXlfs): the files emitted, in order
BundleEmit(bundleXlfs) ==
    [i \in 1..Len(bundleXlfs) |->
        NewFile(BundlePath(bundleXlfs[i].xlf.project, bundleXlfs[i].resource),
                toString(bundleXlfs[i].xlf).result)]

importBundleJson(file, json) ==
    LET r == BundleLoop(json.sources, 1, <<>>, 0)
    IN /\ ~thrown
       /\ nFiles < MaxArrivals
       /\ nFiles' = nFiles + 1
       /\ logged' = logged + r.logs
       /\ thrown' = r.threw
       /\ emitted' = IF r.threw THEN emitted ELSE emitted \o BundleEmit(r.bundleXlfs)
       /\ arrival' = [n |-> nFiles + 1, op |-> "bundle", file |-> file, json |-> json,
                      base |-> Len(emitted), logs |-> r.logs, threw |-> r.threw,
                      message |-> r.message]
       /\ UNCHANGED <<extensions, islXlf, islProcessed, fsCount, hist>>
       /\ UNCHANGED xlfVars
       /\ UNCHANGED fnVars
       /\ UNCHANGED ioVars

\* the else branch of the shape tests: log('Error', 'JSON format cannot be deduced.')
unrecognizedJson(file, json) ==
    /\ ~thrown
    /\ nFiles < MaxArrivals
    /\ nFiles' = nFiles + 1
    /\ logged' = logged + 1
    /\ arrival' = [n |-> nFiles + 1, op |-> "unrecognized", file |-> file, json |-> json,
                   base |-> Len(emitted), logs |-> 1, threw |-> FALSE, message |-> <<>>]
    /\ UNCHANGED <<extensions, islXlf, islProcessed, fsCount, emitted, thrown, hist>>
    /\ UNCHANGED xlfVars
    /\ UNCHANGED fnVars
    /\ UNCHANGED ioVars

\* one source of a bundle
Source(source, keys, messages) == [source |-> source, keys |-> keys, messages |-> messages]

\* the combined-bundle files that arrive
BundleFiles ==
    { [relative |-> <<"nls.metadata.json">>,
       json |-> Bundle(<<
          Source(VsEditorContrib \o <<"/", "foo">>, <<S(<<"k">>)>>, <<<<"a">>>>),
          Source(VsWorkbenchParts \o <<"/", "search", "/", "x">>, <<S(<<"k">>)>>,
                 <<<<"<">>, <<"b">>>>),
          Source(VsEditorContrib \o <<"/", "bar">>, <<S(<<"j">>)>>, <<<<"b">>>>),
          Source(VsBase \o <<"/", "z">>, <<>>, <<>>)>>)],
      [relative |-> <<"nls.metadata.json">>,
       json |-> Bundle(<<
          Source(VsPlatform \o <<"/", "p">>, <<S(<<"k">>)>>, <<<<"a">>>>),
          Source(<<"unknown", "/", "path">>, <<S(<<"k">>)>>, <<<<"a">>>>),
          Source(VsCode \o <<"/", "c">>, <<S(<<"k">>)>>, <<<<"a">>>>)>>)],
      [relative |-> <<"nls.metadata.json">>,
       json |-> Bundle(<<
          Source(VsCode \o <<"/", "c">>, <<S(<<"k">>)>>, <<<<"a">>>>),
          Source(VsBase \o <<"/", "b">>, <<S(<<"k">>), S(<<"j">>)>>, <<<<"a">>>>)>>)] }

\* .json files whose contents have none of the three shapes
UnrecognizedFiles ==
    { [relative |-> <<"package.json">>, json |-> [kind |-> "other"]] }

InitAgg ==
    /\ extensions = [e \in ExtNames |-> None]
    /\ islXlf = None
    /\ islProcessed = 0
    /\ fsCount \in [Patterns -> 1..MaxCount]
    /\ emitted = <<>>
    /\ logged = 0
    /\ thrown = FALSE
    /\ hist = [g \in GroupIds |-> <<>>]
    /\ nFiles = 0
    /\ arrival = [n |-> 0, op |-> "none", file |-> <<>>, json |-> [kind |-> "none"],
                  base |-> 0, logs |-> 0, threw |-> FALSE, message |-> <<>>]

\* documents built by earlier addFile calls
InitDocs ==
    LET d0 == NewXLF(<<"p">>)
        d1 == addFile(d0, <<"p1">>, <<S(<<"k">>), S(<<"j">>)>>, <<<<"a">>, <<"<", "&">>>>).xlf
        d2 == addFile(d1, <<"p2">>, <<Obj(1, <<"k">>, Some(<<<<"<">>, <<"c">>>>))>>, <<<<"a">>>>).xlf
    IN {d0, d1, d2}

InitXlf ==
    /\ doc \in InitDocs
    /\ outs = <<>>
    /\ call = [op |-> "new", prev |-> "new", n |-> 0, original |-> <<>>, keys |-> <<>>,
               messages |-> <<>>, threw |-> FALSE]
    /\ pure = NoCall

Init ==
    /\ InitAgg
    /\ InitIo
    /\ doc = NewXLF(<<"p">>)
    /\ outs = <<>>
    /\ call = [op |-> "new", prev |-> "new", n |-> 0, original |-> <<>>, keys |-> <<>>,
               messages |-> <<>>, threw |-> FALSE]
    /\ pure = NoCall

\* the handler of prepareXlfFiles for a .json buffer whose parsed contents
\* have the module or the package shape
ModuleOrPackageArrival ==
    \E file \in JsonFiles, projectName \in ProjectNames :
        importModuleOrPackageJson(file, projectName, file.extensionName)

\* the handler of prepareXlfFiles for a .isl file
IslArrival ==
    \E file \in IslFiles : importIsl(file)

FsChanges ==
    \E pattern \in Patterns, n \in 1..MaxCount : FsChange(pattern, n)

\* the handler of prepareXlfFiles for a .json buffer whose parsed contents
\* have the combined-bundle shape
BundleArrival ==
    \E file \in BundleFiles :
        BundledFormatIs(file.json) /\ importBundleJson(file, file.json)

\* the handler of prepareXlfFiles for a .json buffer whose parsed contents
\* have none of the shapes
UnrecognizedArrival ==
    \E file \in UnrecognizedFiles :
        /\ ~BundledFormatIs(file.json)
        /\ ~(PackageJsonFormatIs(file.json) \/ ModuleJsonFormatIs(file.json))
        /\ unrecognizedJson(file, file.json)

Next ==
    \/ BundleArrival
    \/ ModuleOrPackageArrival
    \/ UnrecognizedArrival
    \/ IslArrival
    \/ FsChanges

Spec == Init /\ [][Next]_vars

(***************************************************************************)
(* The XLF class on its own: one instance, addFile and toString called in  *)
(* any order with any arguments                                            *)
(***************************************************************************)
\* method calls made on the instance
MaxCalls == 2

\* longest keys and messages arrays passed to addFile
MaxLen == 2

XlfOriginals == {<<"p1">>, <<"p2">>}

\* two plain keys, and two distinct LocalizeInfo objects with the id of the first
KeyUniverse ==
    { S(<<"k">>), S(<<"j">>),
      Obj(1, <<"k">>, Some(<<<<"<">>, <<"c">>>>)),
      Obj(2, <<"k">>, None) }

MessageUniverse == { <<"a">>, <<"<", "&">> }

SeqsUpTo(set, n) == UNION {[1..m -> set] : m \in 0..n}

XlfAddFile(original, keys, messages) ==
    LET added == addFile(doc, original, keys, messages)
    IN /\ Len(outs) + call.n < MaxCalls
       /\ doc' = added.xlf
       /\ call' = [op |-> "addFile", prev |-> call.op, n |-> call.n + 1,
                   original |-> original,
                   keys |-> keys, messages |-> messages, threw |-> added.thrown]
       /\ UNCHANGED outs
       /\ UNCHANGED aggVars
       /\ UNCHANGED fnVars
       /\ UNCHANGED ioVars

XlfToString ==
    LET str == toString(doc)
    IN /\ Len(outs) + call.n < MaxCalls
       /\ doc' = str.xlf
       /\ outs' = Append(outs, str.result)
       /\ call' = [op |-> "toString", prev |-> call.op, n |-> call.n, original |-> <<>>,
                   keys |-> <<>>, messages |-> <<>>, threw |-> FALSE]
       /\ UNCHANGED aggVars
       /\ UNCHANGED fnVars
       /\ UNCHANGED ioVars

XlfAddFiles ==
    \E original \in XlfOriginals, keys \in SeqsUpTo(KeyUniverse, MaxLen),
       messages \in SeqsUpTo(MessageUniverse, MaxLen) :
        XlfAddFile(original, keys, messages)

NextXlf == XlfAddFiles \/ XlfToString

InitXlfSpec ==
    /\ InitXlf
    /\ InitIo
    /\ InitAgg
    /\ fsCount = [pattern \in Patterns |-> 1]

SpecXlf == InitXlfSpec /\ [][NextXlf]_vars

(***************************************************************************)
(* The functions without side effects, each applied to an argument drawn   *)
(* from a bounded set                                                      *)
(***************************************************************************)
\* a call that has not been made yet
Call(op, arg) == [op |-> op, done |-> FALSE, arg |-> arg, result |-> <<>>]

\* the process has handled no file
InitNoFile ==
    /\ InitAgg
    /\ InitIo
    /\ fsCount = [pattern \in Patterns |-> 1]
    /\ doc = NewXLF(<<"p">>)
    /\ outs = <<>>
    /\ call = [op |-> "new", prev |-> "new", n |-> 0, original |-> <<>>, keys |-> <<>>,
               messages |-> <<>>, threw |-> FALSE]

\* longest source path, in segments
MaxSegments == 5

\* the segments a source path may have at position i; a segment is a sequence
\* of tokens
SegmentsAt(i) ==
    CASE i = 1 -> {<<"vs">>, <<"x">>}
      [] i = 2 -> {<<"platform">>, <<"editor">>, <<"base">>, <<"base", "ment">>, <<"code">>,
                   <<"workbench">>, <<"x">>}
      [] i = 3 -> {<<"contrib">>, <<"parts">>, <<"services">>, <<"parts", "2">>, <<"x">>}
      [] OTHER -> {<<"search">>, <<"x">>}

RECURSIVE PathsOfLength(_)
PathsOfLength(n) ==
    IF n = 1 THEN SegmentsAt(1)
    ELSE {path \o <<"/">> \o segment : path \in PathsOfLength(n - 1), segment \in SegmentsAt(n)}

\* the source paths getResource is applied to
SourceFiles == UNION {PathsOfLength(n) : n \in 1..MaxSegments}

GetResourceCall ==
    /\ pure.op = "getResource"
    /\ ~pure.done
    /\ pure' = [pure EXCEPT !.done = TRUE, !.result = getResource(pure.arg)]
    /\ UNCHANGED aggVars
    /\ UNCHANGED xlfVars
    /\ UNCHANGED ioVars

InitResource ==
    /\ InitNoFile
    /\ \E sourceFile \in SourceFiles : pure = Call("getResource", sourceFile)

NextResource == GetResourceCall

SpecResource == InitResource /\ [][NextResource]_vars

(***************************************************************************)
(* encodeEntities, decodeEntities and the way of a message through         *)
(* addFile, toString, translation and parse                                *)
(***************************************************************************)
\* longest message, in characters
MaxChars == 5

EntityAlphabet == {"<", ">", "&", ";", "l", "t", "g", "a", "m", "p"}

\* the messages of n characters
EntityStrings(n) == [1..n -> EntityAlphabet]

\* decodeEntities(encodeEntities(value))
EncodeDecodeCall ==
    /\ pure.op = "encodeDecode"
    /\ ~pure.done
    /\ pure' = [pure EXCEPT !.done = TRUE,
                            !.result = [encoded |-> encodeEntities(pure.arg),
                                        decoded |-> decodeEntities(encodeEntities(pure.arg))]]
    /\ UNCHANGED aggVars
    /\ UNCHANGED xlfVars
    /\ UNCHANGED ioVars

\* XLF.parse of the translated serialization of a document with one item
ParseSerializedCall ==
    LET xlf == addFile(NewXLF(<<"p">>), <<"p1">>, <<S(<<"k">>)>>, <<pure.arg>>).xlf
    IN /\ pure.op = "parseSerialized"
       /\ ~pure.done
       /\ pure' = [pure EXCEPT !.done = TRUE,
                               !.result = parse(TranslatedResult(xlf, <<"DE">>))]
       /\ UNCHANGED aggVars
       /\ UNCHANGED xlfVars
       /\ UNCHANGED ioVars

InitEntities ==
    /\ InitNoFile
    /\ \E n \in 0..MaxChars : \E value \in EntityStrings(n) :
          \/ pure = Call("encodeDecode", value)
          \/ n > 0 /\ pure = Call("parseSerialized", value)

NextEntities == EncodeDecodeCall \/ ParseSerializedCall

SpecEntities == InitEntities /\ [][NextEntities]_vars

(***************************************************************************)
(* XLF.parse applied to what parseString may hand its callback             *)
(***************************************************************************)
\* most file nodes of a document
MaxFiles == 2

AmpLt == <<"&", "a", "m", "p", ";", "l", "t", ";">>

\* the trans-units of a file node: none at all, units without target, with
\* target, with an empty target, with an empty id, and two units with one id
UnitLists ==
    { None,
      Some(<<Unit(<<"k">>, None)>>),
      Some(<<Unit(<<"k">>, Some(AmpLt))>>),
      Some(<<Unit(<<"k">>, None), Unit(<<"j">>, Some(<<"a">>))>>),
      Some(<<Unit(<<"k">>, Some(<<"a">>)), Unit(<<"k">>, Some(AmpLt))>>),
      Some(<<Unit(<<"j">>, Some(<<>>))>>),
      Some(<<Unit(<<>>, Some(<<"a">>))>>),
      Some(<<Unit(<<"k">>, Some(<<"a">>)), Unit(<<"j">>, Some(<<>>))>>) }

FileNodes ==
    { FileNode(original, language, units) :
        original \in {None, Some(<<"p1">>)},
        language \in {None, Some(<<>>), Some(<<"DE">>)},
        units \in UnitLists }

ParseCall ==
    /\ pure.op = "parse"
    /\ ~pure.done
    /\ pure' = [pure EXCEPT !.done = TRUE, !.result = parse(pure.arg)]
    /\ UNCHANGED aggVars
    /\ UNCHANGED xlfVars
    /\ UNCHANGED ioVars

InitParse ==
    /\ InitNoFile
    /\ \/ pure = Call("parse", XmlError)
       \/ pure = Call("parse", XmlResult(None))
       \/ pure = Call("parse", XmlResult(Some([file |-> None])))
       \/ \E n \in 1..MaxFiles : \E fileNodes \in [1..n -> FileNodes] :
             pure = Call("parse", XmlResult(Some([file |-> Some(fileNodes)])))

NextParse == ParseCall

SpecParse == InitParse /\ [][NextParse]_vars

(***************************************************************************)
(* The line loop of importIsl applied to the lines of an ISL file          *)
(***************************************************************************)
\* most lines of an ISL file
MaxLines == 4

\* the lines an ISL file is made of
IslLines ==
    { <<"[", "Messages", "]">>, <<"[", "CustomMessages", "]">>, <<"[", "Other", "]">>,
      <<"[", "Messages", "]", " ">>, <<";", "k", "=", "v">>, <<"k", "=", "v">>,
      <<"j", "=", "w">>, <<"bad">>, <<"k", "=">>, <<>> }

\* the contents of a file with the given lines
IslContents(lines) == Join(lines, <<"\n">>)

IslLoopCall ==
    /\ pure.op = "islLoop"
    /\ ~pure.done
    /\ pure' = [pure EXCEPT !.done = TRUE,
                            !.result = IslLoop(TextModelLines(IslContents(pure.arg)),
                                               FALSE, <<>>, <<>>, 0)]
    /\ UNCHANGED aggVars
    /\ UNCHANGED xlfVars
    /\ UNCHANGED ioVars

InitIsl ==
    /\ InitNoFile
    /\ \E n \in 1..MaxLines : \E lines \in [1..n -> IslLines] :
          pure = Call("islLoop", lines)

NextIsl == IslLoopCall

SpecIsl == InitIsl /\ [][NextIsl]_vars

(***************************************************************************)
(* createIslFile applied to a template, a message map and a language       *)
(***************************************************************************)
\* most lines of a template
MaxTemplate == 2

\* the lines a template is made of
TemplateLines ==
    { EnglishBanner, <<";", "c">>, <<"[", "Messages", "]">>,
      <<"LanguageName", "=", "English">>, <<"LanguageID", "=", "$0409">>,
      <<"LanguageCodePage", "=", "0">>, <<"Foo", "=", "Bar">>, <<"Foo">>,
      <<"Baz", "=", "a", "=", "b">>, <<"=", "v">>, <<>> }

\* the message maps: none, one translation, an empty translation, two
IslMessageMaps ==
    { <<>>, <<[key |-> <<"Foo">>, value |-> <<"T">>]>>,
      <<[key |-> <<"Foo">>, value |-> <<>>]>>,
      <<[key |-> <<"Baz">>, value |-> <<"x", "=", "y">>],
        [key |-> <<"Foo">>, value |-> <<"T">>]>> }

\* the language argument: in all three tables, in encodings only, in
\* iso639_3_to_2 only, undefined
IslLanguages == {Some("chs"), Some("kor"), Some("jpn"), Some("hun"), None}

IslOriginal == <<"build", "/", "win32", "/", "i18n", "/", "messages">>

CreateIslFileCall ==
    /\ pure.op = "createIslFile"
    /\ ~pure.done
    /\ pure' = [pure EXCEPT !.done = TRUE,
                            !.result = createIslFile(<<"..">>, IslOriginal,
                                                     IslContents(pure.arg.lines),
                                                     pure.arg.messages,
                                                     pure.arg.language)]
    /\ UNCHANGED aggVars
    /\ UNCHANGED xlfVars
    /\ UNCHANGED ioVars

InitCreateIsl ==
    /\ InitNoFile
    /\ \E n \in 1..MaxTemplate : \E lines \in [1..n -> TemplateLines] :
          \E messages \in IslMessageMaps : \E language \in IslLanguages :
             pure = Call("createIslFile",
                         [lines |-> lines, messages |-> messages, language |-> language])

NextCreateIsl == CreateIslFileCall

SpecCreateIsl == InitCreateIsl /\ [][NextCreateIsl]_vars

(***************************************************************************)
(* prepareJsonFiles: XLIFF payloads enter the stream, and the callbacks of *)
(* their promises run later, in the order of the payloads                  *)
(***************************************************************************)
\* most payloads in one run
MaxPayloads == 2

\* through(function(xlf) {...}): XLF.parse(...).then(...) registers the
\* callbacks on the promise; input is what parseString hands XLF.parse
prepareJsonFiles(input) ==
    /\ nFiles < MaxPayloads
    /\ jobs' = Append(jobs, parse(input))
    /\ nFiles' = nFiles + 1
    /\ UNCHANGED <<extensions, islXlf, islProcessed, fsCount, emitted, logged, thrown,
                   hist, arrival>>
    /\ UNCHANGED xlfVars
    /\ UNCHANGED fnVars
    /\ UNCHANGED <<tryGetPromises, updateCreatePromises, flush, called,
                   translationsRetrieved, requests, reads, ended>>

\* the callbacks of the oldest promise run: the files are translated and
\* emitted, or the rejection is logged; an exception in the callback ends it
\* and is not handled
JsonSettled ==
    /\ jobs # <<>>
    /\ LET promise == Head(jobs)
           r == TranslateFiles(promise.value, 1, <<>>)
       IN IF promise.state = "resolved"
          THEN /\ emitted' = emitted \o r.emits
               /\ logged' = logged
               /\ arrival' = [n |-> nFiles - Len(jobs) + 1, op |-> "xlf", file |-> <<>>,
                              json |-> [kind |-> "xlf", files |-> promise.value],
                              base |-> Len(emitted), logs |-> 0, threw |-> r.at # 0,
                              message |-> <<>>, at |-> r.at]
          ELSE /\ emitted' = emitted
               /\ logged' = logged + 1
               /\ arrival' = [n |-> nFiles - Len(jobs) + 1, op |-> "xlf", file |-> <<>>,
                              json |-> [kind |-> "rejected", files |-> <<>>],
                              base |-> Len(emitted), logs |-> 1, threw |-> FALSE,
                              message |-> <<>>, at |-> 0]
    /\ jobs' = Tail(jobs)
    /\ UNCHANGED <<extensions, islXlf, islProcessed, fsCount, thrown, hist, nFiles>>
    /\ UNCHANGED xlfVars
    /\ UNCHANGED fnVars
    /\ UNCHANGED <<tryGetPromises, updateCreatePromises, flush, called,
                   translationsRetrieved, requests, reads, ended>>

IslDefault == <<"build", "/", "win32", "/", "i18n", "/", "Default">>

\* the file nodes of a payload: the product-default ISL file, another ISL
\* file, a JSON module, a path that only begins like the build tree; in a
\* language of defaultLanguages, another core language, a language without
\* code page
PayloadNodes ==
    { FileNode(Some(IslDefault), Some(<<"zh-cn">>), Some(<<Unit(<<"k">>, Some(<<"T">>))>>)),
      FileNode(Some(IslDefault), Some(<<"DE">>), Some(<<Unit(<<"k">>, Some(<<"T">>))>>)),
      FileNode(Some(IslOriginal), Some(<<"de">>), Some(<<Unit(<<"j">>, Some(<<"T">>))>>)),
      FileNode(Some(IslOriginal), Some(<<"hu">>), Some(<<Unit(<<"k">>, Some(<<"T">>))>>)),
      FileNode(Some(<<"vs", "/", "base", "/", "x">>), Some(<<"de">>),
               Some(<<Unit(<<"k">>, Some(<<"T">>)), Unit(<<"j">>, None)>>)),
      FileNode(Some(<<"build", "er", "/", "Default">>), Some(<<"Fr">>),
               Some(<<Unit(<<"k">>, Some(<<"T">>))>>)) }

\* what parseString hands XLF.parse for the payloads: no XML, or one or two
\* different file nodes
Payloads ==
    {XmlError}
      \cup {XmlResult(Some([file |-> Some(<<a>>)])) : a \in PayloadNodes}
      \cup {XmlResult(Some([file |-> Some(nodes)])) :
               nodes \in {pair \in PayloadNodes \X PayloadNodes : pair[1] # pair[2]}}

JsonArrival == \E input \in Payloads : prepareJsonFiles(input)

InitJson ==
    /\ InitNoFile
    /\ pure = NoCall

NextJson == JsonArrival \/ JsonSettled

SpecJson == InitJson /\ [][NextJson]_vars

(***************************************************************************)
(* pushXlfFiles: files enter the stream, the input ends, and the responses *)
(* of the Transifex requests arrive in any order.  A step that settles a   *)
(* promise includes the callbacks that run on it before the next event.    *)
(***************************************************************************)
\* most files pushed in one run
MaxPush == 2

\* what a request ends with: the response callback with a status code, or
\* the 'error' event
Response(statusCode) == [error |-> FALSE, statusCode |-> statusCode]

NetworkError == [error |-> TRUE, statusCode |-> 0]

\* a promise whose request has been sent
Requested == [state |-> "pending", value |-> FALSE, request |-> "sent"]

\* tryGetResource: the promise after the request has ended with res
tryGetResource(res) ==
    IF res.error THEN [state |-> "rejected", value |-> FALSE, request |-> "answered"]
    ELSE IF res.statusCode = 404
    THEN [state |-> "resolved", value |-> FALSE, request |-> "answered"]
    ELSE IF res.statusCode = 200
    THEN [state |-> "resolved", value |-> TRUE, request |-> "answered"]
    ELSE [state |-> "rejected", value |-> FALSE, request |-> "answered"]

\* createResource: the promise after the request has ended with res; for
\* status 201 the callback logs and calls neither resolve nor reject
createResource(promise, res) ==
    IF res.error THEN [promise EXCEPT !.state = "rejected", !.request = "answered"]
    ELSE IF res.statusCode = 201 THEN [promise EXCEPT !.request = "answered"]
    ELSE [promise EXCEPT !.state = "rejected", !.request = "answered"]

\* updateResource: the promise after the request has ended with res, the
\* body of a 200 response read to its end
updateResource(promise, res) ==
    IF res.error THEN [promise EXCEPT !.state = "rejected", !.request = "answered"]
    ELSE IF res.statusCode = 200
    THEN [promise EXCEPT !.state = "resolved", !.request = "answered"]
    ELSE [promise EXCEPT !.state = "rejected", !.request = "answered"]

\* Promise.all(promises) of the promises at the given positions
PromiseAll(promises, positions) ==
    IF \E i \in positions : promises[i].state = "rejected" THEN "rejected"
    ELSE IF \A i \in positions : promises[i].state = "resolved" THEN "resolved"
    ELSE "pending"

\* the promises Promise.all(updateCreatePromises) waits for when it is called
\* before any promise has been pushed
AwaitedWhenEmpty(promises) == {}

\* the promises Promise.all(updateCreatePromises) waits for: the ones in the
\* array when it is called
Awaited(promises) == 1..Len(promises)

\* the callbacks of the end function that can run: what becomes of flush, the
\* number of 'end' events emitted and of errors logged
Settled(f, tryGets, updates) ==
    LET all1 == IF f.called /\ f.tryGetAll = "pending"
                THEN PromiseAll(tryGets, 1..Len(tryGets)) ELSE f.tryGetAll
        entered == f.called /\ f.tryGetAll = "pending" /\ all1 = "resolved"
        awaited == IF entered THEN Awaited(updates) ELSE f.awaited
        all2 == IF entered \/ f.updateAll = "pending"
                THEN PromiseAll(updates, awaited) ELSE f.updateAll
    IN [flush |-> [called |-> f.called, tryGetAll |-> all1, awaited |-> awaited,
                   updateAll |-> all2],
        ends |-> IF all2 = "resolved" /\ f.updateAll # "resolved" THEN 1 ELSE 0,
        logs |-> (IF all1 = "rejected" /\ f.tryGetAll # "rejected" THEN 1 ELSE 0)
                 + (IF all2 = "rejected" /\ f.updateAll # "rejected" THEN 1 ELSE 0)]

\* through(function(file) {...}): a file enters the stream
PushWrite ==
    /\ ~flush.called
    /\ nFiles < MaxPush
    /\ nFiles' = nFiles + 1
    /\ tryGetPromises' = Append(tryGetPromises, Requested)
    /\ UNCHANGED <<extensions, islXlf, islProcessed, fsCount, emitted, logged, thrown,
                   hist, arrival>>
    /\ UNCHANGED xlfVars
    /\ UNCHANGED fnVars
    /\ UNCHANGED <<jobs, updateCreatePromises, flush, called, translationsRetrieved,
                   requests, reads, ended>>

\* the end function: the input has ended
PushEnd ==
    /\ ~flush.called
    /\ LET s == Settled([flush EXCEPT !.called = TRUE, !.tryGetAll = "pending"],
                        tryGetPromises, updateCreatePromises)
       IN /\ flush' = s.flush
          /\ ended' = ended + s.ends
          /\ logged' = logged + s.logs
    /\ UNCHANGED <<extensions, islXlf, islProcessed, fsCount, emitted, thrown, hist,
                   nFiles, arrival>>
    /\ UNCHANGED xlfVars
    /\ UNCHANGED fnVars
    /\ UNCHANGED <<jobs, tryGetPromises, updateCreatePromises, called,
                   translationsRetrieved, requests, reads>>

\* the existence query of file i ends with res; promise.then(exists => ...)
\* sends the update or the create request, .catch logs the rejection
TryGetResponse(i, res) ==
    /\ tryGetPromises[i].request = "sent"
    /\ LET promise == tryGetResource(res)
           tryGets == [tryGetPromises EXCEPT ![i] = promise]
           updates == IF promise.state = "resolved"
                      THEN Append(updateCreatePromises,
                                  [state |-> "pending", request |-> "sent", file |-> i,
                                   kind |-> IF promise.value THEN "update" ELSE "create"])
                      ELSE updateCreatePromises
           s == Settled(flush, tryGets, updates)
       IN /\ tryGetPromises' = tryGets
          /\ updateCreatePromises' = updates
          /\ flush' = s.flush
          /\ ended' = ended + s.ends
          /\ logged' = logged + s.logs + (IF promise.state = "rejected" THEN 1 ELSE 0)
    /\ UNCHANGED <<extensions, islXlf, islProcessed, fsCount, emitted, thrown, hist,
                   nFiles, arrival>>
    /\ UNCHANGED xlfVars
    /\ UNCHANGED fnVars
    /\ UNCHANGED <<jobs, called, translationsRetrieved, requests, reads>>

\* the update or create request at position j ends with res
UpdateCreateResponse(j, res) ==
    /\ updateCreatePromises[j].request = "sent"
    /\ LET promise == IF updateCreatePromises[j].kind = "update"
                      THEN updateResource(updateCreatePromises[j], res)
                      ELSE createResource(updateCreatePromises[j], res)
           updates == [updateCreatePromises EXCEPT ![j] = promise]
           s == Settled(flush, tryGetPromises, updates)
       IN /\ updateCreatePromises' = updates
          /\ flush' = s.flush
          /\ ended' = ended + s.ends
          /\ logged' = logged + s.logs
    /\ UNCHANGED <<extensions, islXlf, islProcessed, fsCount, emitted, thrown, hist,
                   nFiles, arrival>>
    /\ UNCHANGED xlfVars
    /\ UNCHANGED fnVars
    /\ UNCHANGED <<jobs, tryGetPromises, called, translationsRetrieved, requests, reads>>

\* the answers of the Transifex API
Responses == {Response(200), Response(201), Response(404), Response(500), NetworkError}

TryGetResponses ==
    \E i \in 1..Len(tryGetPromises) : \E res \in Responses : TryGetResponse(i, res)

UpdateCreateResponses ==
    \E j \in 1..Len(updateCreatePromises) : \E res \in Responses :
        UpdateCreateResponse(j, res)

InitPush ==
    /\ InitNoFile
    /\ pure = NoCall

NextPush == PushWrite \/ PushEnd \/ TryGetResponses \/ UpdateCreateResponses

SpecPush == InitPush /\ [][NextPush]_vars

\* every request sent is answered in the end
SpecPushLive ==
    /\ InitPush
    /\ [][NextPush]_vars
    /\ WF_vars(TryGetResponses)
    /\ WF_vars(UpdateCreateResponses)

(***************************************************************************)
(* pullXlfFiles: the read function is called again and again until 'end',  *)
(* and the responses of the requests of its first call arrive in any order *)
(***************************************************************************)
\* number of languages of vscodeLanguages that are pulled
MaxLanguages == 2

\* most calls of the read function
MaxReads == 3

\* the languages pulled: the first ones of vscodeLanguages
PullLanguages == SubSeq(vscodeLanguages, 1, MaxLanguages)

\* the (language, resource) pairs, by their positions in the two arrays
PullPairs(resources) == (1..Len(PullLanguages)) \X (1..Len(resources))

expectedTranslationsCount(resources) == Len(PullLanguages) * Len(resources)

\* the read function issues the requests at every call
EveryCall(flag) == TRUE

\* if (!called)
NotCalled(flag) == ~flag

\* the request of a pair: how often it was issued, how it ended, and how
\* many data files its response has emitted
NoRequest == [issued |-> 0, state |-> "none", files |-> 0]

\* readable(function(count, callback) {...}): one call of the read function
PullRead ==
    /\ pure.op = "pullXlfFiles"
    /\ ended = 0
    /\ reads < MaxReads
    /\ reads' = reads + 1
    /\ IF translationsRetrieved = expectedTranslationsCount(pure.arg)
       THEN /\ ended' = ended + 1
            /\ UNCHANGED <<called, requests>>
       ELSE /\ ended' = ended
            /\ called' = TRUE
            /\ requests' = IF NotCalled(called)
                           THEN [pair \in DOMAIN requests |->
                                   [requests[pair] EXCEPT !.issued = @ + 1,
                                                          !.state = "sent"]]
                           ELSE requests
    /\ UNCHANGED aggVars
    /\ UNCHANGED xlfVars
    /\ UNCHANGED fnVars
    /\ UNCHANGED <<jobs, tryGetPromises, updateCreatePromises, flush,
                   translationsRetrieved>>

\* the slug of a resource: resource.name.replace(/\//g, '_')
Slug(resource) == [i \in 1..Len(resource.name) |->
                      IF resource.name[i] = "/" THEN "_" ELSE resource.name[i]]

\* the body Transifex answers a pair with
XlfBody(pair) ==
    <<"<xliff ">> \o Slug(pure.arg[pair[2]]) \o <<" ">>
      \o iso639_3_to_2[PullLanguages[pair[1]]] \o <<">">>

\* the request of a pair ends: res.on('end') of its response, or the 'error'
\* event of the request
PullResponse(pair, res) ==
    /\ requests[pair].state = "sent"
    /\ IF res.error
       THEN /\ requests' = [requests EXCEPT ![pair].state = "error"]
            /\ logged' = logged + 1
            /\ UNCHANGED <<emitted, translationsRetrieved>>
       ELSE /\ translationsRetrieved' = translationsRetrieved + 1
            /\ IF res.statusCode = 200
               THEN /\ emitted' = Append(emitted, NewFile(<<>>, XlfBody(pair)))
                    /\ requests' = [requests EXCEPT ![pair].state = "data",
                                                    ![pair].files = @ + 1]
                    /\ logged' = logged
               ELSE /\ emitted' = emitted
                    /\ requests' = [requests EXCEPT ![pair].state = "no data"]
                    /\ logged' = logged + 1
    /\ UNCHANGED <<extensions, islXlf, islProcessed, fsCount, thrown, hist, nFiles,
                   arrival>>
    /\ UNCHANGED xlfVars
    /\ UNCHANGED fnVars
    /\ UNCHANGED <<jobs, tryGetPromises, updateCreatePromises, flush, called, reads,
                   ended>>

PullResponses ==
    \E pair \in DOMAIN requests : \E res \in {Response(200), Response(404), NetworkError} :
        PullResponse(pair, res)

\* the resources argument of pullXlfFiles
ResourceLists ==
    { <<>>,
      <<[name |-> <<"setup">>, project |-> workbenchProject]>>,
      <<[name |-> VsWorkbenchParts \o <<"/", "search">>, project |-> workbenchProject],
        [name |-> VsBase, project |-> editorProject]>> }

\* pullXlfFiles(projectName, apiHostname, username, password, resources) has
\* returned the stream
InitPull ==
    /\ InitAgg
    /\ fsCount = [pattern \in Patterns |-> 1]
    /\ doc = NewXLF(<<"p">>)
    /\ outs = <<>>
    /\ call = [op |-> "new", prev |-> "new", n |-> 0, original |-> <<>>, keys |-> <<>>,
               messages |-> <<>>, threw |-> FALSE]
    /\ \E resources \in ResourceLists :
          /\ pure = [op |-> "pullXlfFiles", done |-> TRUE, arg |-> resources,
                     result |-> <<>>]
          /\ requests = [pair \in PullPairs(resources) |-> NoRequest]
    /\ jobs = <<>>
    /\ tryGetPromises = <<>>
    /\ updateCreatePromises = <<>>
    /\ flush = NotFlushed
    /\ called = FALSE
    /\ translationsRetrieved = 0
    /\ reads = 0
    /\ ended = 0

NextPull == PullRead \/ PullResponses

SpecPull == InitPull /\ [][NextPull]_vars

(***************************************************************************)
(* Properties of the aggregation (specification Spec)                      *)
(***************************************************************************)
\* the output paths of a group's artifact
GroupPaths(g) ==
    IF g = IslGroup THEN {PathJoin(<<"vscode-workbench">>, <<"setup.xlf">>)}
    ELSE {PathJoin(projectName, g \o <<".xlf">>) : projectName \in ProjectNames}

\* positions in emitted of the artifacts of group g
ArtifactsOf(g) == {k \in 1..Len(emitted) : emitted[k].path \in GroupPaths(g)}

\* the arrivals of group g that emitted
EmittingArrivals(g) == {i \in 1..Len(hist[g]) : hist[g][i].emit}

\* every completion test of group g so far compared against n
FixedCount(g, n) == \A i \in 1..Len(hist[g]) : hist[g][i].count = n

\* the distinct original paths contributed by the first i arrivals of group g
Contributed(g, i) == {hist[g][j].original : j \in 1..i}

\* C1: for an extension whose expected count is a fixed N >= 1 and a sequence of
\* at most N arrivals, no arrival before the Nth emits an artifact and the Nth
\* arrival emits exactly one, at {project}/{extensionName}.xlf
C1_EmittedExactlyOnNth ==
    \A e \in ExtNames :
        Len(hist[e]) > 0 =>
            LET N == hist[e][1].count
            IN (N >= 1 /\ FixedCount(e, N) /\ Len(hist[e]) <= N) =>
                  /\ \A i \in 1..Len(hist[e]) : hist[e][i].emit <=> (i = N)
                  /\ Cardinality(ArtifactsOf(e)) = (IF Len(hist[e]) = N THEN 1 ELSE 0)

\* C2: the document of every aggregation group (each extension, and ISL) has
\* been emitted at most once, whatever arrived and however the file-system
\* counts changed between arrivals
C2_EmittedAtMostOnce ==
    \A g \in GroupIds :
        /\ Cardinality(EmittingArrivals(g)) <= 1
        /\ Cardinality(ArtifactsOf(g)) <= 1

\* C3: an extension's document is emitted only when N distinct source paths have
\* contributed: the arrival that emits has count N, N distinct paths have arrived
\* and the document holds N file nodes
C3_EmittedAfterNDistinct ==
    \A e \in ExtNames : \A i \in 1..Len(hist[e]) :
        hist[e][i].emit =>
            /\ Cardinality(Contributed(e, i)) = hist[e][i].count
            /\ (i = Len(hist[e]) =>
                    Len(extensions[e].v.xlf.files) = hist[e][i].count)

\* C4: the count an extension's completion test compares against is fixed by
\* its first contribution: every later contribution compares against the same
\* value, also when the file-system count changed in between
C4_CountDeterminedOnce ==
    \A e \in ExtNames : \A i \in 1..Len(hist[e]) :
        hist[e][i].count = hist[e][1].count

\* C5 as stated: when the number of arrivals of an extension differs from its
\* (constant) expected count, fewer or more, its document has not been emitted
C5_NeverEmittedOnDisagreement ==
    \A e \in ExtNames :
        Len(hist[e]) > 0 =>
            LET N == hist[e][1].count
            IN (FixedCount(e, N) /\ Len(hist[e]) # N) => EmittingArrivals(e) = {}

\* C5 amended: an arrival emits exactly when it is handled without exception and
\* the number of arrivals handled for the extension, itself included, equals
\* the count evaluated at that arrival; so nothing is emitted while fewer have
\* arrived, an arrival beyond a constant count emits nothing, and the
\* disagreement raises no error: only an arrival whose keys and messages differ
\* in length logs or throws
C5_EmitsExactlyWhenCountReached ==
    /\ \A e \in ExtNames : \A i \in 1..Len(hist[e]) :
          /\ hist[e][i].emit <=> (~hist[e][i].threw /\ i = hist[e][i].count)
          /\ (hist[e][i].threw \/ hist[e][i].logs > 0)
                => Len(hist[e][i].ids) # hist[e][i].nmsgs
    /\ \A e \in ExtNames :
          Cardinality(ArtifactsOf(e)) = Cardinality(EmittingArrivals(e))

\* C5 witness: an extension with constant count has received more arrivals than
\* the count, emitted on the arrival that reached it and not on the later one
C5_Witness ==
    \E e \in ExtNames :
        /\ Len(hist[e]) = 2
        /\ FixedCount(e, 1)
        /\ hist[e][1].emit
        /\ ~hist[e][2].emit
        /\ ~thrown
        /\ Cardinality(ArtifactsOf(e)) = 1

(***************************************************************************)
(* Reading an artifact back: the file nodes and trans-units of a           *)
(* serialization, in the order they occur                                  *)
(***************************************************************************)
FileOpen == "<file original=\""

FileOpenEnd == "\" source-language=\"en\" datatype=\"plaintext\"><body>"

UnitOpen == "<trans-unit id=\""

UnitOpenEnd == "\">"

RECURSIVE NodesOf(_)
\* the <file> and <trans-unit> opening tags of a serialization with the value
\* of their original / id attribute
NodesOf(contents) ==
    IF contents = <<>> THEN <<>>
    ELSE IF Head(contents) \in {FileOpen, UnitOpen}
    THEN LET stop == IF Head(contents) = FileOpen THEN FileOpenEnd ELSE UnitOpenEnd
             n == IndexOf(Tail(contents), stop)
         IN <<[file |-> Head(contents) = FileOpen, name |-> SubSeq(Tail(contents), 1, n)]>>
            \o NodesOf(SubSeq(contents, n + 3, Len(contents)))
    ELSE NodesOf(Tail(contents))

RECURSIVE Distinct(_)
\* a sequence without its repeated elements (first occurrences kept)
Distinct(seq) ==
    IF seq = <<>> THEN <<>>
    ELSE LET init == Distinct(SubSeq(seq, 1, Len(seq) - 1))
             last == seq[Len(seq)]
         IN IF IndexOf(init, last) # -1 THEN init ELSE Append(init, last)

\* the original paths of the first i arrivals of group g, in order of first arrival
ArrivalOrder(g, i) == Distinct([j \in 1..i |-> hist[g][j].original])

\* the ids of the latest of the first i arrivals of group g for an original path
LatestIds(g, i, original) ==
    LET j == CHOOSE j \in 1..i :
                /\ hist[g][j].original = original
                /\ \A k \in (j + 1)..i : hist[g][k].original # original
    IN Distinct(hist[g][j].ids)

RECURSIVE ExpectedNodes(_, _, _)
\* the nodes an artifact emitted by the i-th arrival of group g should list
ExpectedNodes(g, i, originals) ==
    IF originals = <<>> THEN <<>>
    ELSE LET ids == LatestIds(g, i, Head(originals))
         IN <<[file |-> TRUE, name |-> Head(originals)]>>
            \o [n \in 1..Len(ids) |-> [file |-> FALSE, name |-> ids[n]]]
            \o ExpectedNodes(g, i, Tail(originals))

\* C6: an emitted document lists its file nodes in the order in which their
\* source files arrived and, within each, the trans-units in the order of the
\* file's keys (stated of each artifact in the state its emission produces)
C6_NodesInArrivalOrder ==
    Len(emitted) > 0 =>
        \A g \in GroupIds :
            (/\ emitted[Len(emitted)].path \in GroupPaths(g)
             /\ Len(hist[g]) > 0
             /\ hist[g][Len(hist[g])].emit)
            => NodesOf(emitted[Len(emitted)].contents)
                  = ExpectedNodes(g, Len(hist[g]), ArrivalOrder(g, Len(hist[g])))

\* C9 (callers): an arrival whose keys and messages differ in length does not
\* fail: it logs one warning, the pairs below the shorter length are stored and
\* the run goes on
C9_MismatchIsNotFatal ==
    \A e \in ExtNames : \A i \in 1..Len(hist[e]) :
        LET a == hist[e][i]
            shorter == IF Len(a.ids) < a.nmsgs THEN Len(a.ids) ELSE a.nmsgs
        IN Len(a.ids) # a.nmsgs =>
              /\ ~a.threw
              /\ ~thrown
              /\ a.logs = 1
              /\ (i = Len(hist[e]) /\ Distinct(a.ids) = a.ids) =>
                    [n \in 1..shorter |-> a.ids[n]]
                       = [n \in 1..Len(ItemsOf(extensions[e].v.xlf.files, a.original)) |->
                            ItemsOf(extensions[e].v.xlf.files, a.original)[n].id]

(***************************************************************************)
(* Properties of the XLF class (specification SpecXlf)                     *)
(***************************************************************************)
\* C7: two toString() calls with no addFile in between return the same text
C7_ToStringIdempotent ==
    (call.op = "toString" /\ call.prev = "toString") =>
        outs[Len(outs)] = outs[Len(outs) - 1]

\* position (1-based) of the first key of keys whose id is id
FirstWithId(keys, id) ==
    CHOOSE i \in 1..Len(keys) :
        keys[i].key = id /\ \A j \in 1..(i - 1) : keys[j].key # id

\* C8: after addFile(path, keys, messages) with keys and messages of equal
\* length, the items stored for path have pairwise different ids and each
\* carries the escaped message at the position of the first key with its id,
\* for plain and for structured keys
C8_FirstOccurrenceWins ==
    (call.op = "addFile" /\ Len(call.keys) = Len(call.messages)) =>
        LET items == ItemsOf(doc.files, call.original)
        IN /\ \A m, n \in 1..Len(items) : items[m].id = items[n].id => m = n
           /\ {items[n].id : n \in 1..Len(items)}
                 = {call.keys[i].key : i \in 1..Len(call.keys)}
           /\ \A n \in 1..Len(items) :
                 items[n].message
                    = encodeEntities(call.messages[FirstWithId(call.keys, items[n].id)])

\* the items stem from this call's arguments alone: each is built from a key of
\* keys and the message at the first position of that key
NewItemsOnly(items, keys, messages, threw) ==
    /\ \A n \in 1..Len(items) :
          \E i \in 1..Len(keys) :
             /\ IndexOf(keys, keys[i]) < Len(messages)
             /\ items[n] = [id |-> keys[i].key,
                            message |-> encodeEntities(messages[IndexOf(keys, keys[i]) + 1]),
                            comment |-> IF keys[i].str THEN None ELSE KeyComment(keys[i])]
    /\ Len(items) <= Cardinality({keys[i] : i \in 1..Len(keys)})
    /\ ~threw => Len(items) = Cardinality({keys[i] : i \in 1..Len(keys)})

\* C10: file paths of a document are unique; an addFile call leaves the item
\* list of every other path as it was, keeps the order of the paths, and makes
\* the item list of its own path consist of items of this call only, whether
\* or not the path was present before
C10_AddFileReplaces ==
    [][call'.n = call.n + 1 =>
         LET original == call'.original
             before == doc.files
             after == doc'.files
         IN /\ \A m, n \in 1..Len(after) : after[m].original = after[n].original => m = n
            /\ HasFile(after, original)
            /\ Len(after) = IF HasFile(before, original) THEN Len(before) ELSE Len(before) + 1
            /\ \A m \in 1..Len(before) :
                  /\ after[m].original = before[m].original
                  /\ before[m].original # original => after[m].items = before[m].items
            /\ NewItemsOnly(ItemsOf(after, original), call'.keys, call'.messages,
                            call'.threw)
      ]_vars

\* C10 witness: addFile was called for a path that held items of an earlier
\* call, in a document that holds another path too, and now holds other items
C10_Witness ==
    /\ call.op = "addFile"
    /\ call.n = 1
    /\ call.original = <<"p1">>
    /\ Len(doc.files) = 2
    /\ Len(ItemsOf(doc.files, <<"p2">>)) = 1
    /\ Len(ItemsOf(doc.files, <<"p1">>)) = 1
    /\ ItemsOf(doc.files, <<"p1">>)[1].id = <<"j">>

(***************************************************************************)
(* Properties of the aggregation after an emission (specification Spec)    *)
(***************************************************************************)
\* the file nodes of the document of group g (empty while it has none)
GroupFiles(g) ==
    IF g = IslGroup THEN (IF islXlf.some THEN islXlf.v.files ELSE <<>>)
    ELSE IF extensions[g].some THEN extensions[g].v.xlf.files ELSE <<>>

\* the received count of group g
GroupProcessed(g) ==
    IF g = IslGroup THEN islProcessed
    ELSE IF extensions[g].some THEN extensions[g].v.processed ELSE 0

\* C11: once the document of a group has been emitted, no step changes the
\* file nodes of that document or the group's received count
C11_ImmutableOnceEmitted ==
    [][\A g \in GroupIds :
          EmittingArrivals(g) # {} =>
              /\ GroupFiles(g)' = GroupFiles(g)
              /\ GroupProcessed(g)' = GroupProcessed(g)
      ]_vars

\* the original paths of the known ISL source files (Default.isl, messages.en.isl)
IslKnownOriginals == {IslOriginalPath(file) : file \in IslFiles}

\* the original paths of the file nodes of a serialization
FileNodeNames(contents) ==
    {NodesOf(contents)[n].name : n \in {m \in 1..Len(NodesOf(contents)) : NodesOf(contents)[m].file}}

\* C12: the ISL path has one group whose completion test compares against 2;
\* setup.xlf is emitted on the arrival that makes the processed count 2 and on
\* no other, and the emitted document has a file node for every known ISL
\* source file
C12_SetupEmittedOnSecondCoversAll ==
    /\ \A i \in 1..Len(hist[IslGroup]) :
          /\ hist[IslGroup][i].count = 2
          /\ hist[IslGroup][i].emit <=> (i = 2)
    /\ Cardinality(ArtifactsOf(IslGroup)) = (IF Len(hist[IslGroup]) >= 2 THEN 1 ELSE 0)
    /\ \A k \in ArtifactsOf(IslGroup) :
          IslKnownOriginals \subseteq FileNodeNames(emitted[k].contents)

(***************************************************************************)
(* Properties of the combined-bundle path (specification Spec)             *)
(***************************************************************************)
\* the last file handled was a combined bundle
BundleHandled == arrival.op = "bundle" /\ arrival.n = nFiles

\* the files emitted while the last bundle or unrecognized file was handled
ArrivalArtifacts == SubSeq(emitted, arrival.base + 1, Len(emitted))

\* every source of a bundle is matched by a rule of getResource
Classifiable(json) ==
    \A i \in 1..Len(json.sources) : ~getResource(json.sources[i].source).threw

\* {project}/{name with '/' replaced by '_'}.xlf
ArtifactPath(resource) ==
    resource.project \o <<"/">>
       \o [i \in 1..Len(resource.name) |->
             IF resource.name[i] = "/" THEN "_" ELSE resource.name[i]]
       \o <<".xlf">>

\* C13: after a bundle whose sources are all classifiable has been handled, one
\* artifact has been emitted for each distinct resource name of its sources, at
\* {project}/{resource with '/' replaced by '_'}.xlf, and each source is a file
\* node of the artifact of its own resource and of no other (so every artifact
\* was serialized after all sources of the payload were added)
C13_OneArtifactPerResource ==
    (BundleHandled /\ Classifiable(arrival.json)) =>
        LET sources == arrival.json.sources
            resources == {getResource(sources[i].source) : i \in 1..Len(sources)}
            arts == ArrivalArtifacts
        IN /\ Len(arts) = Cardinality(resources)
           /\ \A r \in resources :
                 Cardinality({k \in 1..Len(arts) : arts[k].path = ArtifactPath(r)}) = 1
           /\ \A i \in 1..Len(sources) : \A k \in 1..Len(arts) :
                 sources[i].source \in FileNodeNames(arts[k].contents)
                    <=> arts[k].path = ArtifactPath(getResource(sources[i].source))

\* the prefixes the classification knows
KnownPrefixes ==
    { <<"vs", "/", "platform">>, <<"vs", "/", "editor">>, <<"vs", "/", "base">>,
      <<"vs", "/", "code">>, <<"vs", "/", "workbench">> }

\* a path that begins with none of the known prefixes
Unroutable(path) ==
    \A prefix \in KnownPrefixes :
        Len(path) < Len(prefix) \/ SubSeq(path, 1, Len(prefix)) # prefix

\* C14: getResource throws, for every unroutable source of a bundle, an error
\* whose message names the path; after a bundle with an unroutable source has
\* been handled the exception has escaped the handler and no artifact has been
\* emitted for the payload, also none for the sources classified before
C14_UnroutableIsFatal ==
    BundleHandled =>
        LET sources == arrival.json.sources
            unroutable == {i \in 1..Len(sources) : Unroutable(sources[i].source)}
        IN /\ \A i \in unroutable :
                 /\ getResource(sources[i].source).threw
                 /\ getResource(sources[i].source).message
                       = <<"Could not identify the XLF bundle for ">> \o sources[i].source
           /\ unroutable # {} =>
                 /\ arrival.threw
                 /\ thrown
                 /\ Len(emitted) = arrival.base

\* C14 witness: a bundle whose second source is unroutable was handled after
\* another bundle had emitted its artifacts: the run is aborted and the
\* resource of the first source has no artifact
C14_Witness ==
    /\ BundleHandled
    /\ Unroutable(arrival.json.sources[2].source)
    /\ ~Unroutable(arrival.json.sources[1].source)
    /\ arrival.base > 0
    /\ Len(emitted) = arrival.base
    /\ thrown

(***************************************************************************)
(* Properties of getResource (specification SpecResource)                        *)
(***************************************************************************)
\* the rules in their listed order: prefix, project, and whether the resource
\* is named by the first four segments of the path
RuleTable ==
    << [prefix |-> <<"vs", "/", "platform">>, project |-> <<"vscode-editor">>, four |-> FALSE],
       [prefix |-> <<"vs", "/", "editor", "/", "contrib">>, project |-> <<"vscode-editor">>,
        four |-> FALSE],
       [prefix |-> <<"vs", "/", "editor">>, project |-> <<"vscode-editor">>, four |-> FALSE],
       [prefix |-> <<"vs", "/", "base">>, project |-> <<"vscode-editor">>, four |-> FALSE],
       [prefix |-> <<"vs", "/", "code">>, project |-> <<"vscode-workbench">>, four |-> FALSE],
       [prefix |-> <<"vs", "/", "workbench", "/", "parts">>,
        project |-> <<"vscode-workbench">>, four |-> TRUE],
       [prefix |-> <<"vs", "/", "workbench", "/", "services">>,
        project |-> <<"vscode-workbench">>, four |-> TRUE],
       [prefix |-> <<"vs", "/", "workbench">>, project |-> <<"vscode-workbench">>,
        four |-> FALSE] >>

\* rule k matches a path: the path begins with the rule's prefix
RuleMatches(k, path) ==
    /\ Len(path) >= Len(RuleTable[k].prefix)
    /\ SubSeq(path, 1, Len(RuleTable[k].prefix)) = RuleTable[k].prefix

\* the first (at most) four '/'-separated segments of a path, joined by '/'
FirstFourSegments(path) ==
    LET segments == Split(path, "/")
    IN Join(SubSeq(segments, 1, IF Len(segments) < 4 THEN Len(segments) ELSE 4), <<"/">>)

\* C15: getResource returns the result of the first rule of the table that
\* matches the path: the rule's project and, as name, the rule's prefix or, for
\* the parts and services rules, the first four segments of the path; it throws
\* exactly when no rule matches.  A path under vs/editor/contrib is named
\* vs/editor/contrib, and vs/workbench/parts/search/x is named
\* vs/workbench/parts/search
C15_FirstMatchingRule ==
    (pure.op = "getResource" /\ pure.done) =>
        LET path == pure.arg
            matching == {k \in 1..Len(RuleTable) : RuleMatches(k, path)}
        IN /\ pure.result.threw <=> matching = {}
           /\ matching # {} =>
                 LET first == CHOOSE k \in matching : \A j \in matching : k <= j
                 IN /\ pure.result.project = RuleTable[first].project
                    /\ pure.result.name = IF RuleTable[first].four
                                          THEN FirstFourSegments(path)
                                          ELSE RuleTable[first].prefix
           /\ RuleMatches(2, path) => pure.result.name = <<"vs", "/", "editor", "/", "contrib">>
           /\ path = <<"vs", "/", "workbench", "/", "parts", "/", "search", "/", "x">>
                 => pure.result.name = <<"vs", "/", "workbench", "/", "parts", "/", "search">>

\* C15 witness: getResource has been applied to vs/workbench/parts/search/x
C15_Witness ==
    /\ pure.op = "getResource"
    /\ pure.done
    /\ pure.arg = <<"vs", "/", "workbench", "/", "parts", "/", "search", "/", "x">>
    /\ pure.result.project = <<"vscode-workbench">>

(***************************************************************************)
(* Properties of the entity functions (specification SpecEntities)         *)
(***************************************************************************)
\* C16: decodeEntities(encodeEntities(s)) = s for every string s, and the
\* message parse recovers from the translated serialization of a document,
\* for an item whose translation is present (here: the text of its source),
\* is the message the item was added with
C16_RoundTrip ==
    /\ (pure.op = "encodeDecode" /\ pure.done) => pure.result.decoded = pure.arg
    /\ (pure.op = "parseSerialized" /\ pure.done) =>
          /\ pure.result.state = "resolved"
          /\ pure.result.value[1].messages = <<[key |-> <<"k">>, value |-> pure.arg]>>

(***************************************************************************)
(* Properties of XLF.parse (specification SpecParse)                       *)
(***************************************************************************)
\* the file nodes of an input ( <<>> when it has none)
NodesIn(input) ==
    IF ~input.err /\ input.xliff.some /\ input.xliff.v.file.some
    THEN input.xliff.v.file.v ELSE <<>>

\* an attribute is absent or empty
Lacks(attribute) == ~attribute.some \/ attribute.v = <<>>

\* one of the four listed causes of rejection holds of an input
ListedCause(input) ==
    \/ input.err
    \/ ~input.xliff.some
    \/ ~input.xliff.v.file.some
    \/ \E i \in 1..Len(NodesIn(input)) : Lacks(NodesIn(input)[i].original)
    \/ \E i \in 1..Len(NodesIn(input)) : Lacks(NodesIn(input)[i].language)

\* C17: a call of XLF.parse ends resolved or rejected; it is rejected when the
\* XML cannot be parsed, there are no xliff/file nodes, or a file node lacks
\* original or target-language; otherwise it is resolved with one entry for
\* each file node
C17_RejectsOnlyOnListedCauses ==
    (pure.op = "parse" /\ pure.done) =>
        /\ pure.result.state \in {"resolved", "rejected"}
        /\ ListedCause(pure.arg) => pure.result.state = "rejected"
        /\ ~ListedCause(pure.arg) =>
              /\ pure.result.state = "resolved"
              /\ Len(pure.result.value) = Len(NodesIn(pure.arg))

\* a unit that has a target, and a non-empty id and target text
Translated(unit) == unit.target.some /\ unit.id # <<>> /\ unit.target.v # <<>>

\* a cause of rejection other than a missing target: a listed cause, a file
\* node without trans-units, or a unit with a target whose id or target text
\* is empty
OtherCause(input) ==
    \/ ListedCause(input)
    \/ \E i \in 1..Len(NodesIn(input)) :
          \/ ~NodesIn(input)[i].units.some
          \/ \E n \in 1..Len(NodesIn(input)[i].units.v) :
                LET unit == NodesIn(input)[i].units.v[n]
                IN unit.target.some /\ ~Translated(unit)

C19_UnrecognizedPassedThrough ==
    [][(arrival'.op = "unrecognized" /\ arrival'.n = nFiles' /\ nFiles' = nFiles + 1) =>
          /\ logged' = logged + 1
          /\ emitted' = Append(emitted, arrival'.file)
          /\ UNCHANGED <<extensions, islXlf, islProcessed, hist>>
          /\ ~thrown'
      ]_vars

(***************************************************************************)
(* Properties of the ISL extraction (specification SpecIsl)                *)
(***************************************************************************)
\* a section header: a line that begins with '['
IsHeader(line) == line # <<>> /\ line[1] = "["

\* a comment: a line that begins with ';'
IsComment(line) == line # <<>> /\ line[1] = ";"

\* the most recent header before line i is [Messages] or [CustomMessages]
InMessages(lines, i) ==
    \E h \in 1..(i - 1) :
        /\ lines[h] \in {<<"[", "Messages", "]">>, <<"[", "CustomMessages", "]">>}
        /\ \A m \in (h + 1)..(i - 1) : ~IsHeader(lines[m])

\* a line key=value with one '=' and non-empty key and value
IsKeyValue(line) ==
    \E p \in 2..(Len(line) - 1) :
        line[p] = "=" /\ \A q \in 1..Len(line) : line[q] = "=" => q = p

KeyOf(line) == SubSeq(line, 1, (CHOOSE p \in 1..Len(line) : line[p] = "=") - 1)

ValueOf(line) == SubSeq(line, (CHOOSE p \in 1..Len(line) : line[p] = "=") + 1, Len(line))

RECURSIVE Recordable(_, _)
\* the key=value lines among the first n that follow a [Messages] or
\* [CustomMessages] header, in order
Recordable(lines, n) ==
    IF n = 0 THEN <<>>
    ELSE Recordable(lines, n - 1)
         \o (IF /\ ~IsHeader(lines[n])
                /\ ~IsComment(lines[n])
                /\ IsKeyValue(lines[n])
                /\ InMessages(lines, n)
             THEN <<lines[n]>> ELSE <<>>)

\* C20: the pairs the extraction records are exactly the key=value lines whose
\* most recent header is [Messages] or [CustomMessages], in order; so no line
\* before the first header, after another header, or beginning with ';' is
\* recorded
C20_OnlyMessageSections ==
    (pure.op = "islLoop" /\ pure.done) =>
        LET lines == pure.arg
            recordable == Recordable(lines, Len(lines))
        IN /\ Len(pure.result.keys) = Len(recordable)
           /\ Len(pure.result.messages) = Len(recordable)
           /\ \A n \in 1..Len(recordable) :
                 /\ pure.result.keys[n] = [str |-> TRUE, key |-> KeyOf(recordable[n])]
                 /\ pure.result.messages[n] = ValueOf(recordable[n])

\* C20 witness: a file with k=v before any header, a comment with '=' and j=w
\* in [Messages], and k=v after [Other]: only j=w is recorded
C20_Witness ==
    /\ pure.op = "islLoop"
    /\ pure.done
    /\ pure.arg = << <<"k", "=", "v">>, <<"[", "Messages", "]">>, <<"j", "=", "w">>,
                     <<";", "k", "=", "v">> >>
    /\ pure.result.keys = <<[str |-> TRUE, key |-> <<"j">>]>>
    /\ pure.result.messages = << <<"w">> >>

(***************************************************************************)
(* Properties of createIslFile (specification SpecCreateIsl)               *)
(***************************************************************************)
NonEmptyLines(lines) == SelectSeq(lines, LAMBDA line : line # <<>>)

\* the text of a line before its first '=', the whole line when it has none
LineKey(line) ==
    IF \E p \in 1..Len(line) : line[p] = "="
    THEN SubSeq(line, 1, (CHOOSE p \in 1..Len(line) :
                            line[p] = "=" /\ \A q \in 1..(p - 1) : line[q] # "=") - 1)
    ELSE line

\* the static table a locale-metadata key is answered from, the code page
\* table without the CP prefix of its values
MetadataTable(key) ==
    CASE key = <<"LanguageName">> -> languageNames
      [] key = <<"LanguageID">> -> languageIds
      [] key = <<"LanguageCodePage">> ->
            [code \in DOMAIN encodings |-> SubSeq(encodings[code], 3, Len(encodings[code]))]

MetadataKeys == {<<"LanguageName">>, <<"LanguageID">>, <<"LanguageCodePage">>}

HasMessage(messages, key) == \E i \in 1..Len(messages) : messages[i].key = key

\* out is what the mapping of the claim gives for a non-empty template line
MapsTo(line, out, messages, language) ==
    IF IsHeader(line) \/ IsComment(line)
    THEN line # EnglishBanner => out = line
    ELSE IF LineKey(line) \in MetadataKeys
    THEN /\ language.some
         /\ language.v \in DOMAIN MetadataTable(LineKey(line))
         /\ out = LineKey(line) \o <<"=">> \o MetadataTable(LineKey(line))[language.v]
    ELSE IF HasMessage(messages, LineKey(line))
    THEN \E i \in 1..Len(messages) :
            /\ messages[i].key = LineKey(line)
            /\ out = LineKey(line) \o <<"=">> \o messages[i].value
    ELSE out = line

\* C21: createIslFile maps each non-empty template line: a locale-metadata
\* key (LanguageName, LanguageID, LanguageCodePage) becomes key=value from the
\* static per-language table, the code page without its CP prefix; any other
\* key with an entry in messages becomes key=messages[key]; any other key is
\* kept verbatim; comment and section lines pass through unchanged, except
\* the English version banner.  Stated for the languages that have a code
\* page, the ones a file can be encoded for.
C21_IslLineMapping ==
    (pure.op = "createIslFile" /\ pure.done
       /\ TableEntry(encodings, pure.arg.language).some) =>
        /\ ~pure.result.threw
        /\ Len(pure.result.content) = Len(NonEmptyLines(pure.arg.lines))
        /\ \A i \in 1..Len(pure.result.content) :
              MapsTo(NonEmptyLines(pure.arg.lines)[i], pure.result.content[i],
                     pure.arg.messages, pure.arg.language)

(***************************************************************************)
(* Properties of prepareJsonFiles (specification SpecJson)                 *)
(***************************************************************************)
EndsWith(s, suffix) ==
    Len(s) >= Len(suffix) /\ SubSeq(s, Len(s) - Len(suffix) + 1, Len(s)) = suffix

\* the last segment of a path
LastSegment(p) ==
    IF \E i \in 1..Len(p) : p[i] = "/"
    THEN SubSeq(p, (CHOOSE i \in 1..Len(p) :
                      p[i] = "/" /\ \A j \in (i + 1)..Len(p) : p[j] # "/") + 1, Len(p))
    ELSE p

\* what the claim has become of a parsed file: an ISL file, a JSON file, or
\* nothing
RouteOf(file) ==
    IF Len(file.originalFilePath.v) >= 2 /\ file.originalFilePath.v[1] = "build"
       /\ file.originalFilePath.v[2] = "/"
    THEN IF LastSegment(file.originalFilePath.v) = <<"Default">>
            /\ file.language \notin {<<"zh-cn">>, <<"zh-tw">>, <<"ko">>}
         THEN "skipped"
         ELSE "isl"
    ELSE "json"

RECURSIVE Routed(_, _)
\* the first n files of a payload that are not skipped, in order
Routed(files, n) ==
    IF n = 0 THEN <<>>
    ELSE IF RouteOf(files[n]) = "skipped" THEN Routed(files, n - 1)
    ELSE Append(Routed(files, n - 1), files[n])

\* artifact is the artifact of its kind for the parsed file
ArtifactFor(artifact, file) ==
    IF RouteOf(file) = "isl"
    THEN artifact.path = <<"..", "/">> \o file.originalFilePath.v \o <<".">>
                         \o file.language \o <<".", "isl">>
    ELSE EndsWith(artifact.path, <<"/">> \o file.originalFilePath.v \o <<".i18n.json">>)

\* the callbacks of a resolved payload have run
PayloadTranslated == arrival.op = "xlf" /\ arrival.json.kind = "xlf"

\* the files of the payload the callback got through
Processed == IF arrival.at = 0 THEN Len(arrival.json.files) ELSE arrival.at - 1

\* C22: in prepareJsonFiles a parsed file whose original path starts with
\* build/ is routed to ISL regeneration and any other to the translated-JSON
\* artifact; the product-default ISL file (basename Default) gives an artifact
\* only for zh-cn, zh-tw and ko, and for any other language it is skipped
\* without error while the remaining files of the payload are still processed.
C22_RoutedByOriginalPath ==
    PayloadTranslated =>
        /\ arrival.logs = 0
        /\ arrival.at # 0 => RouteOf(arrival.json.files[arrival.at]) # "skipped"
        /\ Len(ArrivalArtifacts) = Len(Routed(arrival.json.files, Processed))
        /\ \A k \in 1..Len(ArrivalArtifacts) :
              ArtifactFor(ArrivalArtifacts[k], Routed(arrival.json.files, Processed)[k])

\* a payload whose first file is the product-default ISL file in German and
\* whose second file was emitted
C22_Witness ==
    /\ PayloadTranslated
    /\ arrival.at = 0
    /\ Len(arrival.json.files) = 2
    /\ RouteOf(arrival.json.files[1]) = "skipped"
    /\ RouteOf(arrival.json.files[2]) = "isl"
    /\ Len(ArrivalArtifacts) = 1

(***************************************************************************)
(* Independence of the aggregation groups (specification Spec)             *)
(***************************************************************************)
\* the document and the received count of group g
GroupState(g) ==
    IF g = IslGroup THEN [doc |-> islXlf, processed |-> Some(islProcessed)]
    ELSE [doc |-> IF extensions[g].some THEN Some(extensions[g].v.xlf) ELSE None,
          processed |-> IF extensions[g].some THEN Some(extensions[g].v.processed)
                        ELSE None]

\* C23: aggregation groups are independent: a step that is no contribution
\* to group g (a contribution to another extension, an ISL arrival for an
\* extension group, any other file) leaves the document and the processed
\* count of g unchanged, whatever came before
C23_GroupsIndependent ==
    [][\A g \in GroupIds : hist'[g] = hist[g] => GroupState(g)' = GroupState(g)]_vars

\* two groups have received a contribution each, one of them the ISL group
C23_Witness ==
    /\ Len(hist[IslGroup]) = 1
    /\ \E e \in ExtNames : Len(hist[e]) = 1 /\ extensions[e].some
    /\ islXlf.some

(***************************************************************************)
(* Whole-segment matching of getResource (specification SpecResource)      *)
(***************************************************************************)
\* the prefix of rule k is made of whole leading segments of the path
SegmentsMatch(k, path) ==
    LET prefix == Split(RuleTable[k].prefix, "/")
        segments == Split(path, "/")
    IN Len(segments) >= Len(prefix) /\ SubSeq(segments, 1, Len(prefix)) = prefix

\* the rule getResource routed the path by: the one whose result it returned
RoutedBy(k, path, result) ==
    /\ ~result.threw
    /\ RuleMatches(k, path)
    /\ \A j \in 1..(k - 1) : ~RuleMatches(j, path)
    /\ result.project = RuleTable[k].project
    /\ result.name = IF RuleTable[k].four THEN FirstFourSegments(path)
                     ELSE RuleTable[k].prefix

\* C24: getResource routes a path by a rule only when the rule's prefix
\* matches whole leading segments of the path: vs/basement/x is not routed by
\* the vs/base rule, nor vs/workbench/partsfoo/x by the vs/workbench/parts rule
C24_WholeSegments ==
    (pure.op = "getResource" /\ pure.done) =>
        \A k \in 1..Len(RuleTable) :
            RoutedBy(k, pure.arg, pure.result) => SegmentsMatch(k, pure.arg)

(***************************************************************************)
(* Properties of pushXlfFiles (specifications SpecPush and SpecPushLive)   *)
(***************************************************************************)
\* the request made for file i, according to the answer of its existence
\* query, has settled
ChosenRequestSettled(i) ==
    \E j \in 1..Len(updateCreatePromises) :
        /\ updateCreatePromises[j].file = i
        /\ updateCreatePromises[j].kind
              = (IF tryGetPromises[i].value THEN "update" ELSE "create")
        /\ updateCreatePromises[j].state # "pending"

Outstanding ==
    \/ \E i \in 1..Len(tryGetPromises) : tryGetPromises[i].request = "sent"
    \/ \E j \in 1..Len(updateCreatePromises) : updateCreatePromises[j].request = "sent"

\* C25: in pushXlfFiles 'end' is emitted only after, for every file that
\* entered the stream, its existence query has settled and the create or
\* update request chosen from the answer has settled; there is no 'end' while
\* a request is outstanding
C25_EndAfterAllSettled ==
    ended > 0 =>
        /\ Len(tryGetPromises) = nFiles
        /\ \A i \in 1..nFiles :
              /\ tryGetPromises[i].state # "pending"
              /\ ChosenRequestSettled(i)
        /\ ~Outstanding

\* 'end' has been emitted after two files were pushed
C25_Witness ==
    /\ ended = 1
    /\ nFiles = 2
    /\ Len(updateCreatePromises) = 2
    /\ \A j \in 1..2 : updateCreatePromises[j].state = "resolved"

\* no request has failed so far
AllSuccessful ==
    /\ \A i \in 1..Len(tryGetPromises) : tryGetPromises[i].state # "rejected"
    /\ \A j \in 1..Len(updateCreatePromises) : updateCreatePromises[j].state # "rejected"

\* C26: if every request of pushXlfFiles receives a success response (200 or
\* 404 for the existence query, 201 for create, 200 for update), then after the
\* input has ended the stream eventually emits 'end', for resources that exist
\* (update) and for resources that do not (create)
C26_EventuallyEnds ==
    flush.called ~> (ended > 0 \/ ~AllSuccessful)

(***************************************************************************)
(* Properties of pullXlfFiles (specification SpecPull)                     *)
(***************************************************************************)
\* the responses that have come to their end
Completed == {pair \in DOMAIN requests : requests[pair].state \in {"data", "no data"}}

\* the data files emitted for a pair
DataFiles(pair) == {k \in 1..Len(emitted) : emitted[k].contents = XlfBody(pair)}

\* C27: in pullXlfFiles, however often the read function is invoked, exactly
\* one request is issued per (language, resource) pair, at most one data file
\* is emitted per pair and only for a 200 response, and 'end' is emitted only
\* when the number of completed responses is the number of languages times
\* the number of resources
C27_OneRequestPerPair ==
    pure.op = "pullXlfFiles" =>
        /\ DOMAIN requests = PullPairs(pure.arg)
        /\ \A pair \in DOMAIN requests :
              /\ requests[pair].issued = (IF reads > 0 THEN 1 ELSE 0)
              /\ Cardinality(DataFiles(pair)) = requests[pair].files
              /\ requests[pair].files = (IF requests[pair].state = "data" THEN 1 ELSE 0)
        /\ Len(emitted) = Cardinality({pair \in DOMAIN requests : requests[pair].files = 1})
        /\ ended > 0 =>
              /\ ended = 1
              /\ Cardinality(Completed) = Len(PullLanguages) * Len(pure.arg)
              /\ translationsRetrieved = Cardinality(Completed)

\* 'end' has been emitted at the third call of the read function, after a
\* data file for one pair and a response without data for another
C27_Witness ==
    /\ pure.op = "pullXlfFiles"
    /\ ended = 1
    /\ reads = 3
    /\ \E pair \in DOMAIN requests : requests[pair].state = "data"
    /\ \E pair \in DOMAIN requests : requests[pair].state = "no data"

====
